---- MODULE Spec2Model ----
(***************************************************************************)
(* WhatsApp template validator: the structural schema                      *)
(* (lib/validators/template-schema.ts), the parser TemplateParser and the  *)
(* rule engine TemplateValidator (lib/parsers/template-parser.ts).         *)
(*                                                                         *)
(* Strings that the code scans (texts, urls, names) are sequences of       *)
(* one-character strings; strings the code only builds (messages, field    *)
(* paths) are TLA+ strings.  An optional field is <<>> when absent and     *)
(* <<v>> when present.  JavaScript indices are 0-based, sequences here are *)
(* 1-based: the element at position i has the JavaScript index i - 1.      *)
(***************************************************************************)
EXTENDS Integers, Sequences, FiniteSets, TLC

VARIABLES
    heap,       \* array identity -> contents (the diagnostics arrays)
    nextRef,    \* next unused array identity
    this,       \* the TemplateValidator instance: its three array fields
    reports,    \* ValidationResult values returned so far, each with its argument,
                \* its entry point and the calls each of its passes made
    arg,        \* the input drawn for a single-call specification
    parsed,     \* ParseResult values returned by parseJSON so far
    ui,         \* the state of the TemplateValidator component (useState hooks)
    stats       \* values returned by getTemplateStats and extractVariables so far

vars == <<heap, nextRef, this, reports, arg, parsed, ui, stats>>

(***************************************************************************)
(* Bounds of the model.                                                    *)
(***************************************************************************)
MaxCalls == 2          \* validate calls in one behaviour
MaxTokens == 3         \* tokens concatenated into one generated text
MaxButtons == 4        \* buttons in one generated BUTTONS component
MaxOTPButtons == 3     \* buttons in one generated BUTTONS component with OTP buttons
MaxComponents == 4     \* components in one generated document

(***************************************************************************)
(* Program constants.                                                      *)
(***************************************************************************)
TTL_MIN == 30
AUTH_TTL_MAX == 900
UTILITY_TTL_MAX == 43200
TTL_MAX == 2592000
HEADER_LIMIT == 60
BODY_LIMIT == 1024
FOOTER_LIMIT == 60
BUTTON_LIMIT == 25

(***************************************************************************)
(* Optional values and JavaScript truthiness.                              *)
(***************************************************************************)
Absent == <<>>
Some(v) == <<v>>
IsPresent(o) == Len(o) = 1
Get(o) == o[1]

\* !!x for an optional string: undefined and "" are falsy
TruthyStr(o) == IsPresent(o) /\ Len(Get(o)) > 0
\* !!x for an optional number: undefined and 0 are falsy
TruthyNum(o) == IsPresent(o) /\ Get(o) /= 0
\* !!x for an optional boolean
TruthyBool(o) == IsPresent(o) /\ Get(o) = TRUE

(***************************************************************************)
(* Characters and scanning.                                                *)
(***************************************************************************)
Digits == {"0", "1", "2", "3", "4", "5", "6", "7", "8", "9"}

DigitVal(c) ==
    CASE c = "0" -> 0 [] c = "1" -> 1 [] c = "2" -> 2 [] c = "3" -> 3
      [] c = "4" -> 4 [] c = "5" -> 5 [] c = "6" -> 6 [] c = "7" -> 7
      [] c = "8" -> 8 [] c = "9" -> 9

Min(S) == CHOOSE x \in S : \A y \in S : x <= y

\* parseInt of a non-empty digit string
RECURSIVE parseInt(_)
parseInt(ds) ==
    IF Len(ds) = 0 THEN 0
    ELSE 10 * parseInt(SubSeq(ds, 1, Len(ds) - 1)) + DigitVal(ds[Len(ds)])

\* first position >= j that holds no digit (Len + 1 when the digits run to the end)
DigitRunEnd(text, j) ==
    Min({k \in j..(Len(text) + 1) : k = Len(text) + 1 \/ text[k] \notin Digits})

\* first position >= j that holds "}" (Len + 1 when there is none)
NonBraceRunEnd(text, j) ==
    Min({k \in j..(Len(text) + 1) : k = Len(text) + 1 \/ text[k] = "}"})

\* /\{\{(\d+)\}\}/ matches at position i: the position after the match, else 0
VariableMatchEnd(text, i) ==
    IF i + 1 <= Len(text) /\ text[i] = "{" /\ text[i + 1] = "{"
    THEN LET e == DigitRunEnd(text, i + 2)
         IN  IF e > i + 2 /\ e + 1 <= Len(text) /\ text[e] = "}" /\ text[e + 1] = "}"
             THEN e + 2 ELSE 0
    ELSE 0

\* /\{\{[^}]*\}\}/ matches at position i: the position after the match, else 0
BracesMatchEnd(text, i) ==
    IF i + 1 <= Len(text) /\ text[i] = "{" /\ text[i + 1] = "{"
    THEN LET e == NonBraceRunEnd(text, i + 2)
         IN  IF e + 1 <= Len(text) /\ text[e] = "}" /\ text[e + 1] = "}"
             THEN e + 2 ELSE 0
    ELSE 0

\* text.matchAll(/\{\{(\d+)\}\}/g) from position `from`: the captured digit strings,
\* left to right, each match resuming the scan after the previous one
RECURSIVE matchAllVariables(_, _)
matchAllVariables(text, from) ==
    LET starts == {i \in from..Len(text) : VariableMatchEnd(text, i) /= 0}
    IN  IF starts = {} THEN <<>>
        ELSE LET i == Min(starts)
                 e == VariableMatchEnd(text, i)
             IN  <<SubSeq(text, i + 2, e - 3)>> \o matchAllVariables(text, e)

\* text.match(/\{\{[^}]*\}\}/g) from position `from`: the matched substrings
RECURSIVE matchAllBraces(_, _)
matchAllBraces(text, from) ==
    LET starts == {i \in from..Len(text) : BracesMatchEnd(text, i) /= 0}
    IN  IF starts = {} THEN <<>>
        ELSE LET i == Min(starts)
                 e == BracesMatchEnd(text, i)
             IN  <<SubSeq(text, i, e - 1)>> \o matchAllBraces(text, e)

\* v.match(/^\{\{\d+\}\}$/)
IsVariableToken(v) ==
    /\ Len(v) >= 5
    /\ VariableMatchEnd(v, 1) = Len(v) + 1

\* insert x into the ascending sequence s, after the elements equal to it
RECURSIVE InsertSorted(_, _)
InsertSorted(s, x) ==
    IF Len(s) = 0 THEN <<x>>
    ELSE IF x < s[1] THEN <<x>> \o s
    ELSE <<s[1]>> \o InsertSorted(Tail(s), x)

\* Array.prototype.sort((a, b) => a - b)
RECURSIVE sortAscending(_)
sortAscending(s) ==
    IF Len(s) = 0 THEN <<>>
    ELSE InsertSorted(sortAscending(SubSeq(s, 1, Len(s) - 1)), s[Len(s)])

\* numbers.join(sep), numbers printed in decimal
RECURSIVE join(_, _)
join(nums, sep) ==
    IF Len(nums) = 0 THEN ""
    ELSE IF Len(nums) = 1 THEN ToString(nums[1])
    ELSE ToString(nums[1]) \o sep \o join(Tail(nums), sep)

\* the indices stay in document order
sortedVariables_unsorted(text) ==
    LET matches == matchAllVariables(text, 1)
    IN  [k \in 1..Len(matches) |-> parseInt(matches[k])]

\* matches.map((match) => parseInt(match[1])).sort((a, b) => a - b)
sortedVariables(text) ==
    LET matches == matchAllVariables(text, 1)
    IN  sortAscending([k \in 1..Len(matches) |-> parseInt(matches[k])])

\* for (i ...) if (variables[i] !== i + 1) ...: some element is out of sequence
NotSequential(variables) ==
    \E k \in 1..Len(variables) : variables[k] /= k

(***************************************************************************)
(* Diagnostics.  A pass never reads the arrays it pushes to, so a pass is  *)
(* modelled by the sequence of its addError / addWarning / addInfo calls,  *)
(* in call order; validate pushes them onto the instance's arrays.         *)
(***************************************************************************)
ValidationError(field, message, suggestion, severity) ==
    [field |-> field, message |-> message, suggestion |-> Some(suggestion),
     line |-> Absent, severity |-> severity]

addError(field, message, suggestion) ==
    <<ValidationError(field, message, suggestion, "error")>>

\* the warning recorded as an error
addWarning_asError(field, message, suggestion) ==
    <<ValidationError(field, message, suggestion, "error")>>

addWarning(field, message, suggestion) ==
    <<ValidationError(field, message, suggestion, "warning")>>

addInfo(field, message, suggestion) ==
    <<ValidationError(field, message, suggestion, "info")>>

\* if (cond) { calls }
When(cond, calls) == IF cond THEN calls ELSE <<>>

\* the calls of the iterations of a forEach, one after the other
RECURSIVE forEach(_)
forEach(iterations) ==
    IF iterations = <<>> THEN <<>>
    ELSE Head(iterations) \o forEach(Tail(iterations))

\* components.find((c) => c.type === type), as an optional value
find(components, type) ==
    IF \E i \in 1..Len(components) : components[i].type = type
    THEN Some(components[Min({i \in 1..Len(components) : components[i].type = type})])
    ELSE Absent

\* the position itself is printed
Idx_oneBased(i) == ToString(i)

\* the JavaScript index of position i, printed
Idx(i) == ToString(i - 1)

(***************************************************************************)
(* Pass 1: basic structure.                                                *)
(***************************************************************************)
componentOrder == <<"HEADER", "BODY", "FOOTER", "BUTTONS">>

\* componentOrder.indexOf(type): 0-based, -1 when not found
indexOf(type) ==
    IF \E k \in 1..Len(componentOrder) : componentOrder[k] = type
    THEN Min({k \in 1..Len(componentOrder) : componentOrder[k] = type}) - 1
    ELSE -1

\* only the component just before position i is remembered
lastValidIndex_previous(components, i) ==
    IF i = 1 THEN -1 ELSE indexOf(components[i - 1].type)

\* lastValidIndex when the loop reaches position i: -1, then the running maximum
lastValidIndex(components, i) ==
    CHOOSE m \in {-1} \cup {indexOf(components[j].type) : j \in 1..(i - 1)} :
        \A j \in 1..(i - 1) : indexOf(components[j].type) <= m

\* the suggestion joins the names with a Unicode arrow, written -> here
checkComponentOrder(components) ==
    forEach([i \in 1..Len(components) |->
        When(indexOf(components[i].type) < lastValidIndex(components, i),
             addWarning("components[" \o Idx(i) \o "]",
                 "Component " \o components[i].type
                     \o " should come before previous components",
                 "Reorder components: HEADER -> BODY -> FOOTER -> BUTTONS"))])

validateBasicStructure(template) ==
    When(~IsPresent(find(template.components, "BODY")),
         addError("components", "Template must have a BODY component",
                  "Add a BODY component with your message text"))
    \o checkComponentOrder(template.components)

(***************************************************************************)
(* Pass 2: category policy.                                                *)
(***************************************************************************)
\* the upper bound of the window is not checked
ttlOutside_noUpper(ttl, lo, hi) ==
    TruthyNum(ttl) /\ Get(ttl) < lo

\* template.messageSendTtlSeconds && (ttl < lo || ttl > hi)
ttlOutside(ttl, lo, hi) ==
    TruthyNum(ttl) /\ (Get(ttl) < lo \/ Get(ttl) > hi)

\* buttonComponent.buttons?.some((b) => b.type === "OTP")
hasOTPButton(buttons) ==
    \E k \in 1..Len(buttons) : buttons[k].type = "OTP"

validateAuthenticationTemplate(template) ==
    When(/\ IsPresent(find(template.components, "BUTTONS"))
         /\ ~hasOTPButton(Get(find(template.components, "BUTTONS")).buttons),
         addWarning("buttons",
             "Authentication templates typically use OTP buttons for better user experience",
             "Consider adding an OTP button (COPY_CODE, ONE_TAP, or ZERO_TAP)"))
    \o When(ttlOutside(template.messageSendTtlSeconds, TTL_MIN, AUTH_TTL_MAX),
         addError("messageSendTtlSeconds",
             "Authentication templates TTL must be between 30 seconds and 15 minutes (900 seconds)",
             "Set TTL between 30 and 900 seconds"))
    \o When(/\ IsPresent(find(template.components, "BODY"))
            /\ ~TruthyBool(Get(find(template.components, "BODY")).add_security_recommendation),
         addInfo("body.add_security_recommendation",
             "Consider adding security recommendation for authentication templates",
             "Set add_security_recommendation to true"))

validateUtilityTemplate(template) ==
    When(ttlOutside(template.messageSendTtlSeconds, TTL_MIN, UTILITY_TTL_MAX),
         addError("messageSendTtlSeconds",
             "Utility templates TTL must be between 30 seconds and 12 hours (43200 seconds)",
             "Set TTL between 30 and 43200 seconds"))
    \o When(/\ template.subCategory = Some("ORDER_STATUS")
            /\ IsPresent(find(template.components, "BUTTONS")),
         addWarning("buttons",
             "Order status templates typically don't need buttons",
             "Consider removing buttons for order status updates"))

validateMarketingTemplate(template) ==
    When(ttlOutside(template.messageSendTtlSeconds, UTILITY_TTL_MAX, TTL_MAX),
         addError("messageSendTtlSeconds",
             "Marketing templates TTL must be between 12 hours (43200 seconds) and 30 days (2592000 seconds)",
             "Set TTL between 43200 and 2592000 seconds"))
    \o When(~IsPresent(find(template.components, "HEADER")),
         addInfo("header",
             "Marketing templates perform better with media headers",
             "Consider adding an IMAGE, VIDEO, or DOCUMENT header"))
    \o When(~IsPresent(find(template.components, "BUTTONS")),
         addInfo("buttons",
             "Marketing templates benefit from call-to-action buttons",
             "Consider adding URL or QUICK_REPLY buttons"))

validateCategorySpecificRules(template) ==
    CASE template.category = "AUTHENTICATION" -> validateAuthenticationTemplate(template)
      [] template.category = "UTILITY" -> validateUtilityTemplate(template)
      [] template.category = "MARKETING" -> validateMarketingTemplate(template)
      [] OTHER -> <<>>

(***************************************************************************)
(* Pass 3: component combinations.                                         *)
(***************************************************************************)
\* !headerComponent.example?.header_url (an array, even an empty one, is truthy)
lacksHeaderUrl(header) ==
    ~(IsPresent(header.example) /\ IsPresent(Get(header.example).header_url))

\* only the text of a TEXT header is required
checkHeaderFormat_textOnly(header) ==
    When(header.format = Some("TEXT") /\ ~TruthyStr(header.text),
         addError("header.text", "TEXT header format requires text content",
                  "Add text or change format"))

checkHeaderFormat(header) ==
    When(header.format = Some("TEXT") /\ ~TruthyStr(header.text),
         addError("header.text", "TEXT header format requires text content",
                  "Add text or change format"))
    \o When(/\ IsPresent(header.format)
            /\ header.format /= Some("TEXT")
            /\ lacksHeaderUrl(header),
         addError("header.example.header_url",
                  Get(header.format) \o " header format requires example URL",
                  "Add example URL for media header"))

checkOTPButton(button, i) ==
    When(/\ button.type = "OTP"
         /\ button.otp_type = Some("ONE_TAP")
         /\ ~TruthyStr(button.package_name),
         addError("buttons[" \o Idx(i) \o "].package_name",
                  "ONE_TAP OTP buttons require package_name",
                  "Add your Android app's package name"))
    \o When(/\ button.type = "OTP"
            /\ button.otp_type = Some("ZERO_TAP")
            /\ ~TruthyBool(button.zero_tap_terms_accepted),
         addError("buttons[" \o Idx(i) \o "].zero_tap_terms_accepted",
                  "ZERO_TAP OTP buttons require terms acceptance",
                  "Set zero_tap_terms_accepted to true"))

checkOTPButtons(buttons) ==
    forEach([i \in 1..Len(buttons) |-> checkOTPButton(buttons[i], i)])

validateComponentCombinations(template) ==
    When(IsPresent(find(template.components, "HEADER")),
         checkHeaderFormat(Get(find(template.components, "HEADER"))))
    \o When(IsPresent(find(template.components, "BUTTONS")),
         checkOTPButtons(Get(find(template.components, "BUTTONS")).buttons))

(***************************************************************************)
(* Pass 4: variable usage.                                                 *)
(***************************************************************************)
\* new Set(variables).size !== variables.length
hasDuplicates(variables) ==
    \E j, k \in 1..Len(variables) : j < k /\ variables[j] = variables[k]

checkVariables(variables, field) ==
    When(NotSequential(variables),
         addError(field,
             "Variables must be sequential starting from {{1}}. Found: {{"
                 \o join(variables, "}}, {{") \o "}}",
             "Use variables {{1}}, {{2}}, {{3}}, etc. in sequence"))
    \o When(hasDuplicates(variables),
         addWarning(field, "Duplicate variables found",
             "Each variable should be used only once per component"))

validateVariablesInText(text, field) ==
    checkVariables(sortedVariables(text), field)

checkButtonUrl(button, i) ==
    When(button.type = "URL" /\ TruthyStr(button.url),
         validateVariablesInText(Get(button.url), "buttons[" \o Idx(i) \o "].url"))

checkComponentVariables(component) ==
    CASE component.type = "BODY" ->
            When(Len(component.text) > 0,
                 validateVariablesInText(component.text, "body.text"))
      [] component.type = "HEADER" ->
            When(component.format = Some("TEXT") /\ TruthyStr(component.text),
                 validateVariablesInText(Get(component.text), "header.text"))
      [] component.type = "BUTTONS" ->
            forEach([k \in 1..Len(component.buttons) |->
                        checkButtonUrl(component.buttons[k], k)])
      [] OTHER -> <<>>

validateVariableUsage(template) ==
    forEach([i \in 1..Len(template.components) |->
                checkComponentVariables(template.components[i])])

(***************************************************************************)
(* Pass 5: character limits.                                               *)
(***************************************************************************)
\* the warning starts at 90% of the limit
validateTextLength_from90(length, maxLength, field) ==
    When(length > maxLength,
         addError(field,
             "Text exceeds " \o ToString(maxLength)
                 \o " character limit (current: " \o ToString(length) \o ")",
             "Reduce text by " \o ToString(length - maxLength) \o " characters"))
    \o When(10 * length >= 9 * maxLength,
         addWarning(field,
             "Text is close to " \o ToString(maxLength)
                 \o " character limit (current: " \o ToString(length) \o ")",
             "Consider shortening the text to avoid future issues"))

validateTextLength(length, maxLength, field) ==
    When(length > maxLength,
         addError(field,
             "Text exceeds " \o ToString(maxLength)
                 \o " character limit (current: " \o ToString(length) \o ")",
             "Reduce text by " \o ToString(length - maxLength) \o " characters"))
    \* text.length > maxLength * 0.9
    \o When(10 * length > 9 * maxLength,
         addWarning(field,
             "Text is close to " \o ToString(maxLength)
                 \o " character limit (current: " \o ToString(length) \o ")",
             "Consider shortening the text to avoid future issues"))

checkButtonText(button, i) ==
    When(TruthyStr(button.text),
         validateTextLength(Len(Get(button.text)), BUTTON_LIMIT,
                            "buttons[" \o Idx(i) \o "].text"))

checkComponentLength(component) ==
    CASE component.type = "HEADER" ->
            When(component.format = Some("TEXT") /\ TruthyStr(component.text),
                 validateTextLength(Len(Get(component.text)), HEADER_LIMIT, "header.text"))
      [] component.type = "BODY" ->
            validateTextLength(Len(component.text), BODY_LIMIT, "body.text")
      [] component.type = "FOOTER" ->
            validateTextLength(Len(component.text), FOOTER_LIMIT, "footer.text")
      [] component.type = "BUTTONS" ->
            forEach([k \in 1..Len(component.buttons) |->
                        checkButtonText(component.buttons[k], k)])
      [] OTHER -> <<>>

validateCharacterLimits(template) ==
    forEach([i \in 1..Len(template.components) |->
                checkComponentLength(template.components[i])])

(***************************************************************************)
(* Pass 6: button combinations.                                            *)
(***************************************************************************)
\* buttonCounts[type]: undefined (compares false with > n) when no button has the type
buttonCount(buttons, type) ==
    Cardinality({k \in 1..Len(buttons) : buttons[k].type = type})

\* quick replies count as grouped wherever they are
isGrouped_always(buttons) == TRUE

\* quickReplyIndices.every((index, i) => i === 0 || index === quickReplyIndices[i - 1] + 1)
isGrouped(buttons) ==
    \A k \in 2..Len(buttons) :
        (/\ buttons[k].type = "QUICK_REPLY"
         /\ \E j \in 1..(k - 1) : buttons[j].type = "QUICK_REPLY")
        => buttons[k - 1].type = "QUICK_REPLY"

checkButtonCombinations(buttons) ==
    When(buttonCount(buttons, "PHONE_NUMBER") > 1,
         addError("buttons", "Maximum 1 phone number button allowed",
                  "Remove extra phone number buttons"))
    \o When(buttonCount(buttons, "URL") > 2,
         addError("buttons", "Maximum 2 URL buttons allowed",
                  "Remove extra URL buttons"))
    \o When(buttonCount(buttons, "COPY_CODE") > 1,
         addError("buttons", "Maximum 1 copy code button allowed",
                  "Remove extra copy code buttons"))
    \o When(~isGrouped(buttons),
         addError("buttons", "Quick reply buttons must be grouped together",
                  "Move all quick reply buttons to the beginning or end of the button list"))

validateButtonCombinations(template) ==
    When(IsPresent(find(template.components, "BUTTONS")),
         checkButtonCombinations(Get(find(template.components, "BUTTONS")).buttons))

(***************************************************************************)
(* Pass 7: media requirements.                                             *)
(***************************************************************************)
\* the /i flag, for the letters of the extensions
toLowerCase(c) ==
    CASE c = "J" -> "j" [] c = "P" -> "p" [] c = "G" -> "g" [] c = "E" -> "e"
      [] c = "N" -> "n" [] c = "M" -> "m" [] c = "D" -> "d" [] c = "F" -> "f"
      [] OTHER -> c

\* the suffix is compared as written
endsWithIgnoreCase_exact(url, suffix) ==
    /\ Len(url) >= Len(suffix)
    /\ \A k \in 1..Len(suffix) : url[Len(url) - Len(suffix) + k] = suffix[k]

\* url.match(/<suffix>$/i), suffix a literal in lower case
endsWithIgnoreCase(url, suffix) ==
    /\ Len(url) >= Len(suffix)
    /\ \A k \in 1..Len(suffix) :
           toLowerCase(url[Len(url) - Len(suffix) + k]) = suffix[k]

hasExtension(url, format) ==
    CASE format = "IMAGE" ->
            \/ endsWithIgnoreCase(url, <<".", "j", "p", "g">>)
            \/ endsWithIgnoreCase(url, <<".", "j", "p", "e", "g">>)
            \/ endsWithIgnoreCase(url, <<".", "p", "n", "g">>)
      [] format = "VIDEO" -> endsWithIgnoreCase(url, <<".", "m", "p", "4">>)
      [] format = "DOCUMENT" -> endsWithIgnoreCase(url, <<".", "p", "d", "f">>)
      [] OTHER -> TRUE

extensionMessage(format) ==
    CASE format = "IMAGE" -> "Image header URL must end with .jpg, .jpeg, or .png"
      [] format = "VIDEO" -> "Video header URL must end with .mp4"
      [] format = "DOCUMENT" -> "Document header URL must end with .pdf"

extensionSuggestion(format) ==
    CASE format = "IMAGE" -> "Use a valid image file extension"
      [] format = "VIDEO" -> "Use a valid MP4 video file"
      [] format = "DOCUMENT" -> "Use a valid PDF document file"

\* !example?.header_url || !example.header_url[0]
lacksFirstUrl(header) ==
    \/ lacksHeaderUrl(header)
    \/ Len(Get(Get(header.example).header_url)) = 0
    \/ Len(Get(Get(header.example).header_url)[1]) = 0

checkMedia(header) ==
    IF ~IsPresent(header.format) \/ header.format = Some("TEXT") THEN <<>>
    ELSE IF lacksFirstUrl(header)
    THEN addError("header.example.header_url",
             Get(header.format) \o " header requires example URL",
             "Add a valid example URL for the media")
    ELSE When(~hasExtension(Get(Get(header.example).header_url)[1], Get(header.format)),
             addError("header.example.header_url",
                 extensionMessage(Get(header.format)),
                 extensionSuggestion(Get(header.format))))

validateMediaRequirements(template) ==
    When(IsPresent(find(template.components, "HEADER")),
         checkMedia(Get(find(template.components, "HEADER"))))

(***************************************************************************)
(* Pass 8: TTL settings.                                                   *)
(***************************************************************************)
validateTTLSettings(template) ==
    IF ~TruthyNum(template.messageSendTtlSeconds)
    THEN addInfo("messageSendTtlSeconds",
             "Consider setting a TTL (time-to-live) for your template",
             "Add messageSendTtlSeconds based on your template category")
    ELSE When(Get(template.messageSendTtlSeconds) < TTL_MIN,
              addError("messageSendTtlSeconds",
                  "TTL cannot be less than 30 seconds",
                  "Set TTL to at least 30 seconds"))
         \o When(Get(template.messageSendTtlSeconds) > TTL_MAX,
              addError("messageSendTtlSeconds",
                  "TTL cannot exceed 30 days (2592000 seconds)",
                  "Set TTL to maximum 2592000 seconds"))

(***************************************************************************)
(* validate: the eight passes, in order, on the instance's arrays.         *)
(***************************************************************************)
IsError(d) == d.severity = "error"
IsWarning(d) == d.severity = "warning"
IsInfo(d) == d.severity = "info"

\* the later passes are skipped once the first three have raised an error
runPasses_shortCircuit(template) ==
    IF SelectSeq(validateBasicStructure(template)
                 \o validateCategorySpecificRules(template)
                 \o validateComponentCombinations(template), IsError) /= <<>>
    THEN validateBasicStructure(template)
         \o validateCategorySpecificRules(template)
         \o validateComponentCombinations(template)
    ELSE validateBasicStructure(template)
         \o validateCategorySpecificRules(template)
         \o validateComponentCombinations(template)
         \o validateVariableUsage(template)
         \o validateCharacterLimits(template)
         \o validateButtonCombinations(template)
         \o validateMediaRequirements(template)
         \o validateTTLSettings(template)

\* the calls of each of the eight passes of one validate call, in the order validate
\* runs them
passCalls(template) ==
    <<validateBasicStructure(template),
      validateCategorySpecificRules(template),
      validateComponentCombinations(template),
      validateVariableUsage(template),
      validateCharacterLimits(template),
      validateButtonCombinations(template),
      validateMediaRequirements(template),
      validateTTLSettings(template)>>

\* the calls of one validate call, in order
runPasses(template) == forEach(passCalls(template))

\* three new empty arrays at identities n, n + 1, n + 2: [heap, nextRef, instance]
allocArrays(h, n) ==
    [heap |-> [r \in 1..(n + 2) |-> IF r >= n THEN <<>> ELSE h[r]],
     nextRef |-> n + 3,
     instance |-> [errors |-> n, warnings |-> n + 1, info |-> n + 2]]

\* new TemplateValidator(): the field initialisers
newTemplateValidator(h, n) == allocArrays(h, n)

\* the arrays stay the ones of the previous call
keepArrays(h, n, instance) ==
    [heap |-> h, nextRef |-> n, instance |-> instance]

\* this.errors = []; this.warnings = []; this.info = [];
resetArrays(h, n, instance) == allocArrays(h, n)

\* the calls pushed onto the arrays of `instance`: addError pushes to this.errors,
\* addWarning to this.warnings, addInfo to this.info
pushAll(h, instance, calls) ==
    [h EXCEPT ![instance.errors] = @ \o SelectSeq(calls, IsError),
              ![instance.warnings] = @ \o SelectSeq(calls, IsWarning),
              ![instance.info] = @ \o SelectSeq(calls, IsInfo)]

\* isValid counts warnings as well
isValidOf_noWarnings(h, instance) ==
    Len(h[instance.errors]) = 0 /\ Len(h[instance.warnings]) = 0

\* isValid: this.errors.length === 0
isValidOf(h, instance) == Len(h[instance.errors]) = 0

\* the returned object: the verdict and the instance's own arrays
resultOf(h, instance) ==
    [isValid |-> isValidOf(h, instance),
     errors |-> instance.errors,
     warnings |-> instance.warnings,
     info |-> instance.info]

(***************************************************************************)
(* Template values (the type WhatsAppTemplate).                            *)
(***************************************************************************)
Header(format, text, example) ==
    [type |-> "HEADER", format |-> format, text |-> text, example |-> example]

Body(text, add_security_recommendation) ==
    [type |-> "BODY", text |-> text,
     add_security_recommendation |-> add_security_recommendation, example |-> Absent]

Footer(text) ==
    [type |-> "FOOTER", text |-> text, code_expiration_minutes |-> Absent]

Buttons(buttons) == [type |-> "BUTTONS", buttons |-> buttons]

Example(header_url) == Some([header_url |-> header_url])

Button(type, text) ==
    [type |-> type, text |-> text, url |-> Absent, phone_number |-> Absent,
     otp_type |-> Absent, package_name |-> Absent, zero_tap_terms_accepted |-> Absent,
     flow_id |-> Absent]

URLButton(text, url) == [Button("URL", Some(text)) EXCEPT !.url = Some(url)]

OTPButton(otp_type, package_name, zero_tap_terms_accepted) ==
    [Button("OTP", Absent) EXCEPT !.otp_type = Some(otp_type),
                                  !.package_name = package_name,
                                  !.zero_tap_terms_accepted = zero_tap_terms_accepted]

Template(name, language, category, subCategory, ttl, components) ==
    [name |-> name, language |-> language, category |-> category,
     subCategory |-> subCategory, messageSendTtlSeconds |-> ttl,
     components |-> components]

\* character sequences used to build inputs
Var(d) == <<"{", "{", d, "}", "}">>
Chars_hi == <<"h", "i">>
Chars_ok == <<"o", "k">>
Chars_name == <<"x", "_", "1">>
Chars_en == <<"e", "n">>
Chars_jpg == <<"h", ":", "a", ".", "J", "P", "G">>
Chars_gif == <<"h", ":", "a", ".", "g", "i", "f">>
Chars_url == <<"h", ":", "a">>
Filler(n) == [k \in 1..n |-> "a"]

T(category, subCategory, ttl, components) ==
    Template(Chars_name, Chars_en, category, subCategory, ttl, components)

(***************************************************************************)
(* The structural schema (template-schema.ts).  Parsing a value against a  *)
(* schema is modelled by the sequence of issues the parse reports, in the  *)
(* order zod reports them: the keys of an object in the order of its       *)
(* shape, the length checks of an array before its elements, the checks of *)
(* a string before its refinements.  An issue is fatal when the parse of   *)
(* its value is aborted (a missing required value, a value outside an      *)
(* enum, a literal or a discriminator); a refinement runs unless the parse *)
(* it refines was aborted.                                                 *)
(***************************************************************************)
Lower ==
    {"a", "b", "c", "d", "e", "f", "g", "h", "i", "j", "k", "l", "m",
     "n", "o", "p", "q", "r", "s", "t", "u", "v", "w", "x", "y", "z"}

Upper ==
    {"A", "B", "C", "D", "E", "F", "G", "H", "I", "J", "K", "L", "M",
     "N", "O", "P", "Q", "R", "S", "T", "U", "V", "W", "X", "Y", "Z"}

Issue(message, path, fatal) ==
    <<[message |-> message, path |-> path, fatal |-> fatal]>>

Aborted(issues) == \E k \in 1..Len(issues) : issues[k].fatal

\* a required key that is missing
Required(path) == Issue("Required", path, TRUE)

\* z.enum(values): the issue for a value outside the enum
InvalidEnum(expected, received, path) ==
    Issue("Invalid enum value. Expected " \o expected \o ", received '"
              \o received \o "'", path, TRUE)

\* z.string().url() on strings whose scheme is not a special one (http, file, ...):
\* new URL(u) succeeds exactly when u starts with a scheme
isUrl(u) ==
    \E k \in 2..Len(u) :
        /\ u[k] = ":"
        /\ u[1] \in Lower \cup Upper
        /\ \A m \in 2..(k - 1) : u[m] \in Lower \cup Upper \cup Digits \cup {"+", "-", "."}

\* the sequential-variables refinement of createTextValidator fails
notSequentialRefine(text) == NotSequential(sortedVariables(text))

\* the variable-format refinement of createTextValidator fails
invalidVariables(text) ==
    \E k \in 1..Len(matchAllBraces(text, 1)) : ~IsVariableToken(matchAllBraces(text, 1)[k])

createTextValidator(text, maxLength, allowVariables, path) ==
    When(Len(text) < 1, Issue("Text cannot be empty", path, FALSE))
    \o When(Len(text) > maxLength,
            Issue("Text cannot exceed " \o ToString(maxLength) \o " characters",
                  path, FALSE))
    \o When(allowVariables /\ notSequentialRefine(text),
            Issue("Variables must be sequential starting from {{1}}", path, FALSE))
    \o When(invalidVariables(text),
            Issue("Variables must be in format {{1}}, {{2}}, etc.", path, FALSE))

\* a required text key
requiredText(text, maxLength, allowVariables, path) ==
    IF IsPresent(text) THEN createTextValidator(Get(text), maxLength, allowVariables, path)
    ELSE Required(path)

\* an optional text key
optionalText(text, maxLength, allowVariables, path) ==
    When(IsPresent(text), createTextValidator(Get(text), maxLength, allowVariables, path))

\* z.literal(value) as a required key
literalText(text, value, valueShown, path) ==
    IF ~IsPresent(text) THEN Required(path)
    ELSE When(Get(text) /= value,
              Issue("Invalid literal value, expected \"" \o valueShown \o "\"", path, TRUE))

HeaderFormat == {"TEXT", "IMAGE", "VIDEO", "DOCUMENT", "LOCATION"}

OTPType == {"COPY_CODE", "ONE_TAP", "ZERO_TAP"}

\* header_url: z.array(z.string().url()).optional(); the other keys of the
\* example hold plain strings and raise nothing
ExampleSchema(example, path) ==
    When(IsPresent(example) /\ IsPresent(Get(example).header_url),
         forEach([k \in 1..Len(Get(Get(example).header_url)) |->
                    When(~isUrl(Get(Get(example).header_url)[k]),
                         Issue("Invalid url", path \o ".header_url." \o Idx(k), FALSE))]))

HeaderComponentBaseSchema(c, path) ==
    When(IsPresent(c.format) /\ Get(c.format) \notin HeaderFormat,
         InvalidEnum("'TEXT' | 'IMAGE' | 'VIDEO' | 'DOCUMENT' | 'LOCATION'",
                     Get(c.format), path \o ".format"))
    \o optionalText(c.text, HEADER_LIMIT, TRUE, path \o ".text")
    \o ExampleSchema(c.example, path \o ".example")

BodyComponentSchema(c, path) ==
    createTextValidator(c.text, BODY_LIMIT, TRUE, path \o ".text")
    \o ExampleSchema(c.example, path \o ".example")

FooterComponentSchema(c, path) ==
    createTextValidator(c.text, FOOTER_LIMIT, FALSE, path \o ".text")
    \o When(IsPresent(c.code_expiration_minutes) /\ Get(c.code_expiration_minutes) < 1,
            Issue("Number must be greater than or equal to 1",
                  path \o ".code_expiration_minutes", FALSE))
    \o When(IsPresent(c.code_expiration_minutes) /\ Get(c.code_expiration_minutes) > 60,
            Issue("Number must be less than or equal to 60",
                  path \o ".code_expiration_minutes", FALSE))

\* /^\+[1-9]\d{1,14}$/
isPhoneNumber(p) ==
    /\ Len(p) >= 3
    /\ Len(p) <= 16
    /\ p[1] = "+"
    /\ p[2] \in Digits \ {"0"}
    /\ \A k \in 3..Len(p) : p[k] \in Digits

Chars_view_catalog == <<"V", "i", "e", "w", " ", "c", "a", "t", "a", "l", "o", "g">>
Chars_view_items == <<"V", "i", "e", "w", " ", "i", "t", "e", "m", "s">>
Chars_review_and_pay == <<"R", "e", "v", "i", "e", "w", " ", "a", "n", "d", " ", "P", "a", "y">>

URLButtonSchema(b, path) ==
    requiredText(b.text, BUTTON_LIMIT, FALSE, path \o ".text")
    \o (IF ~IsPresent(b.url) THEN Required(path \o ".url")
        ELSE When(~isUrl(Get(b.url)), Issue("Invalid url", path \o ".url", FALSE))
             \o When(Len(Get(b.url)) > 2000,
                     Issue("String must contain at most 2000 character(s)",
                           path \o ".url", FALSE)))

PhoneButtonSchema(b, path) ==
    requiredText(b.text, BUTTON_LIMIT, FALSE, path \o ".text")
    \o (IF ~IsPresent(b.phone_number) THEN Required(path \o ".phone_number")
        ELSE When(~isPhoneNumber(Get(b.phone_number)),
                  Issue("Invalid phone number format", path \o ".phone_number", FALSE)))

OTPButtonSchema(b, path) ==
    (IF ~IsPresent(b.otp_type) THEN Required(path \o ".otp_type")
     ELSE When(Get(b.otp_type) \notin OTPType,
               InvalidEnum("'COPY_CODE' | 'ONE_TAP' | 'ZERO_TAP'", Get(b.otp_type),
                           path \o ".otp_type")))
    \o optionalText(b.text, BUTTON_LIMIT, FALSE, path \o ".text")

FlowButtonSchema(b, path) ==
    requiredText(b.text, BUTTON_LIMIT, FALSE, path \o ".text")
    \o When(~IsPresent(b.flow_id), Required(path \o ".flow_id"))

\* z.discriminatedUnion("type", [...]) over the button schemas
ButtonSchema(b, path) ==
    CASE b.type \in {"QUICK_REPLY", "VOICE_CALL"} ->
             requiredText(b.text, BUTTON_LIMIT, FALSE, path \o ".text")
      [] b.type = "URL" -> URLButtonSchema(b, path)
      [] b.type = "PHONE_NUMBER" -> PhoneButtonSchema(b, path)
      [] b.type = "COPY_CODE" -> <<>>
      [] b.type = "OTP" -> OTPButtonSchema(b, path)
      [] b.type = "CATALOG" ->
             literalText(b.text, Chars_view_catalog, "View catalog", path \o ".text")
      [] b.type = "MPM" ->
             literalText(b.text, Chars_view_items, "View items", path \o ".text")
      [] b.type = "FLOW" -> FlowButtonSchema(b, path)
      [] b.type = "ORDER_DETAILS" ->
             literalText(b.text, Chars_review_and_pay, "Review and Pay", path \o ".text")
      [] OTHER ->
             Issue("Invalid discriminator value. Expected 'QUICK_REPLY' | 'URL' | "
                   \o "'PHONE_NUMBER' | 'COPY_CODE' | 'OTP' | 'CATALOG' | 'MPM' | 'FLOW' | "
                   \o "'ORDER_DETAILS' | 'VOICE_CALL'", path \o ".type", TRUE)

\* the number of buttons of the type
countType(buttons, type) ==
    Cardinality({k \in 1..Len(buttons) : buttons[k].type = type})

\* the first refinement of buttons: JavaScript indices; the last index of a
\* QUICK_REPLY button is replaced by -1 when it is 0 (`.pop() || -1`)
quickRepliesGrouped(buttons) ==
    LET quick == {k - 1 : k \in {m \in 1..Len(buttons) : buttons[m].type = "QUICK_REPLY"}}
        firstQuickReplyIndex == Min(quick)
        lastQuickReplyIndex ==
            IF (CHOOSE x \in quick : \A y \in quick : y <= x) = 0 THEN -1
            ELSE CHOOSE x \in quick : \A y \in quick : y <= x
    IN  \/ quick = {}
        \/ Cardinality(quick) = Len(buttons)
        \/ \A i \in firstQuickReplyIndex..lastQuickReplyIndex :
               buttons[i + 1].type = "QUICK_REPLY"

\* the caps with three URL buttons allowed
withinButtonLimits_threeUrls(buttons) ==
    /\ countType(buttons, "PHONE_NUMBER") <= 1
    /\ countType(buttons, "URL") <= 3
    /\ countType(buttons, "COPY_CODE") <= 1

\* the second refinement of buttons
withinButtonLimits(buttons) ==
    /\ countType(buttons, "PHONE_NUMBER") <= 1
    /\ countType(buttons, "URL") <= 2
    /\ countType(buttons, "COPY_CODE") <= 1

buttonItems(buttons, path) ==
    forEach([k \in 1..Len(buttons) |-> ButtonSchema(buttons[k], path \o "." \o Idx(k))])

ButtonsComponentSchema(c, path) ==
    When(Len(c.buttons) < 1, Issue("At least one button is required",
                                   path \o ".buttons", FALSE))
    \o When(Len(c.buttons) > 10, Issue("Maximum 10 buttons allowed",
                                       path \o ".buttons", FALSE))
    \o buttonItems(c.buttons, path \o ".buttons")
    \o When(~Aborted(buttonItems(c.buttons, path \o ".buttons")),
            When(~quickRepliesGrouped(c.buttons),
                 Issue("Quick reply buttons must be grouped together",
                       path \o ".buttons", FALSE))
            \o When(~withinButtonLimits(c.buttons),
                    Issue("Button type limits exceeded: max 1 phone, 2 URL, 1 copy code button",
                          path \o ".buttons", FALSE)))

\* z.discriminatedUnion("type", [...]) over the component schemas
ComponentSchema(c, path) ==
    CASE c.type = "HEADER" -> HeaderComponentBaseSchema(c, path)
      [] c.type = "BODY" -> BodyComponentSchema(c, path)
      [] c.type = "FOOTER" -> FooterComponentSchema(c, path)
      [] c.type = "BUTTONS" -> ButtonsComponentSchema(c, path)
      [] OTHER ->
             Issue("Invalid discriminator value. Expected 'HEADER' | 'BODY' | 'FOOTER' | "
                   \o "'BUTTONS'", path \o ".type", TRUE)

\* a type counts once however often it occurs
countComponents_once(components, type) ==
    IF \E i \in 1..Len(components) : components[i].type = type THEN 1 ELSE 0

countComponents(components, type) ==
    Cardinality({i \in 1..Len(components) : components[i].type = type})

\* the third refinement of components: the header requirements
headerRequirementsMet(components) ==
    LET headerComponent == find(components, "HEADER")
    IN  \/ ~IsPresent(headerComponent)
        \/ /\ ~(Get(headerComponent).format = Some("TEXT")
                /\ ~TruthyStr(Get(headerComponent).text))
           /\ ~(/\ IsPresent(Get(headerComponent).format)
                /\ Get(headerComponent).format /= Some("TEXT")
                /\ ~(/\ IsPresent(Get(headerComponent).example)
                     /\ IsPresent(Get(Get(headerComponent).example).header_url)))

componentItems(components) ==
    forEach([i \in 1..Len(components) |->
               ComponentSchema(components[i], "components." \o Idx(i))])

componentsSchema(components) ==
    When(Len(components) < 1, Issue("At least one component is required",
                                    "components", FALSE))
    \o componentItems(components)
    \o When(~Aborted(componentItems(components)),
            When(countComponents(components, "BODY") /= 1,
                 Issue("Template must have exactly one BODY component", "components", FALSE))
            \o When(\/ countComponents(components, "HEADER") > 1
                    \/ countComponents(components, "FOOTER") > 1
                    \/ countComponents(components, "BUTTONS") > 1,
                    Issue("Template can have at most one HEADER, FOOTER, and BUTTONS component each",
                          "components", FALSE))
            \o When(~headerRequirementsMet(components),
                    Issue("Header with TEXT format requires text, media formats require example URL",
                          "components", FALSE)))

\* /^[a-z0-9_]+$/
isTemplateName(name) ==
    /\ Len(name) >= 1
    /\ \A k \in 1..Len(name) : name[k] \in Lower \cup Digits \cup {"_"}

\* the region suffix is not accepted
isLanguageCode_twoLetters(language) ==
    /\ Len(language) = 2
    /\ language[1] \in Lower /\ language[2] \in Lower

\* /^[a-z]{2}(_[A-Z]{2})?$/
isLanguageCode(language) ==
    \/ /\ Len(language) = 2
       /\ language[1] \in Lower /\ language[2] \in Lower
    \/ /\ Len(language) = 5
       /\ language[1] \in Lower /\ language[2] \in Lower
       /\ language[3] = "_"
       /\ language[4] \in Upper /\ language[5] \in Upper

nameSchema(name) ==
    IF ~IsPresent(name) THEN Required("name")
    ELSE When(Len(Get(name)) < 1, Issue("Template name is required", "name", FALSE))
         \o When(Len(Get(name)) > 512,
                 Issue("Template name cannot exceed 512 characters", "name", FALSE))
         \o When(~isTemplateName(Get(name)),
                 Issue("Template name can only contain lowercase letters, numbers, and underscores",
                       "name", FALSE))

languageSchema(language) ==
    IF ~IsPresent(language) THEN Required("language")
    ELSE When(Len(Get(language)) < 2, Issue("Language code is required", "language", FALSE))
         \o When(~isLanguageCode(Get(language)),
                 Issue("Invalid language code format (e.g., en_US, es, fr)",
                       "language", FALSE))

categorySchema(category) ==
    IF ~IsPresent(category) THEN Required("category")
    ELSE When(Get(category) \notin {"MARKETING", "UTILITY", "AUTHENTICATION"},
              InvalidEnum("'MARKETING' | 'UTILITY' | 'AUTHENTICATION'", Get(category),
                          "category"))

subCategorySchema(subCategory) ==
    When(IsPresent(subCategory) /\ Get(subCategory) /= "ORDER_STATUS",
         InvalidEnum("'ORDER_STATUS'", Get(subCategory), "subCategory"))

\* z.number().min(30).max(2592000).optional()
ttlSchema(ttl) ==
    When(IsPresent(ttl) /\ Get(ttl) < TTL_MIN,
         Issue("Number must be greater than or equal to " \o ToString(TTL_MIN),
               "messageSendTtlSeconds", FALSE))
    \o When(IsPresent(ttl) /\ Get(ttl) > TTL_MAX,
            Issue("Number must be less than or equal to " \o ToString(TTL_MAX),
                  "messageSendTtlSeconds", FALSE))

\* WhatsAppTemplateSchema.parse(rawData) for a document whose keys, where present,
\* hold values of the right JSON type: the issues, in order
WhatsAppTemplateSchema(doc) ==
    nameSchema(doc.name)
    \o languageSchema(doc.language)
    \o categorySchema(doc.category)
    \o subCategorySchema(doc.subCategory)
    \o ttlSchema(doc.messageSendTtlSeconds)
    \o (IF IsPresent(doc.components) THEN componentsSchema(Get(doc.components))
        ELSE Required("components"))

\* z.object strips the keys its shape does not name: the keys a button schema keeps
buttonShape(type) ==
    CASE type = "URL" -> {"text", "url"}
      [] type = "PHONE_NUMBER" -> {"text", "phone_number"}
      [] type = "COPY_CODE" -> {}
      [] type = "OTP" -> {"otp_type", "text", "package_name", "zero_tap_terms_accepted"}
      [] type = "FLOW" -> {"text", "flow_id"}
      [] OTHER -> {"text"}

stripButton(b) ==
    [key \in DOMAIN b |->
        IF key = "type" \/ key \in buttonShape(b.type) THEN b[key] ELSE Absent]

\* the shapes of the component schemas name every key of the modelled components
stripComponent(c) ==
    IF c.type = "BUTTONS"
    THEN [c EXCEPT !.buttons = [k \in 1..Len(c.buttons) |-> stripButton(c.buttons[k])]]
    ELSE c

\* every key is kept
validatedData_unstripped(doc) ==
    Template(Get(doc.name), Get(doc.language), Get(doc.category), doc.subCategory,
             doc.messageSendTtlSeconds, Get(doc.components))

\* the value the schema returns for an accepted document
validatedData(doc) ==
    Template(Get(doc.name), Get(doc.language), Get(doc.category), doc.subCategory,
             doc.messageSendTtlSeconds,
             [k \in 1..Len(Get(doc.components)) |-> stripComponent(Get(doc.components)[k])])

(***************************************************************************)
(* The templates of the multi-call specification: between them they raise  *)
(* diagnostics of every severity from every pass.                          *)
(***************************************************************************)
Templates ==
    { T("UTILITY", Absent, Absent, <<Footer(Chars_ok), Body(Chars_hi, Absent)>>),
      T("UTILITY", Absent, Some(600), <<Body(Var("1") \o Var("1"), Absent)>>),
      T("UTILITY", Some("ORDER_STATUS"), Some(0),
        <<Buttons(<<Button("QUICK_REPLY", Some(Filler(23)))>>), Body(Chars_hi, Absent),
          Header(Some("TEXT"), Absent, Absent)>>),
      T("AUTHENTICATION", Absent, Some(1000), <<Body(Var("1"), Absent)>>),
      T("AUTHENTICATION", Absent, Some(20),
        <<Body(Chars_hi, Some(TRUE)),
          Buttons(<<OTPButton("ONE_TAP", Absent, Absent),
                    OTPButton("ZERO_TAP", Absent, Some(FALSE))>>)>>),
      T("AUTHENTICATION", Absent, Some(600),
        <<Footer(Chars_ok), Buttons(<<Button("COPY_CODE", Absent),
                                      Button("COPY_CODE", Absent)>>)>>),
      T("MARKETING", Absent, Absent,
        <<Header(Some("IMAGE"), Absent, Absent), Body(Var("1") \o Var("3"), Absent),
          Buttons(<<Button("QUICK_REPLY", Some(Chars_ok)),
                    URLButton(Chars_ok, Chars_url \o Var("2")),
                    Button("QUICK_REPLY", Some(Filler(26)))>>)>>),
      T("MARKETING", Absent, Some(43200),
        <<Header(Some("IMAGE"), Absent, Example(Some(<<Chars_jpg>>))),
          Body(Chars_hi \o Var("1"), Absent), Footer(Chars_ok),
          Buttons(<<URLButton(Chars_ok, Chars_url), Button("QUICK_REPLY", Some(Chars_ok))>>)>>),
      T("MARKETING", Absent, Some(2592001),
        <<Header(Some("VIDEO"), Absent, Example(Some(<<Chars_gif>>))),
          Body(Chars_hi, Absent)>>),
      T("MARKETING", Absent, Some(100),
        <<Body(Chars_hi, Absent), Header(Some("DOCUMENT"), Absent, Example(Some(<<>>)))>>) }

(***************************************************************************)
(* Raw texts.  A text is held together with the outcome of JSON.parse on   *)
(* it; NoDoc is the object without any of the keys read.                   *)
(***************************************************************************)
NoDoc == [name |-> Absent, language |-> Absent, category |-> Absent,
          subCategory |-> Absent, messageSendTtlSeconds |-> Absent,
          components |-> Absent]

\* a text that JSON.parse rejects with the message
MalformedText(text, message) ==
    [text |-> text, kind |-> "SyntaxError", message |-> message, value |-> NoDoc]

Chars_unexpected_end == <<"U", "n", "e", "x", "p", "e", "c", "t", "e", "d", " ", "e", "n", "d", " ", "o", "f", " ", "J", "S", "O", "N", " ", "i", "n", "p", "u", "t">>

(***************************************************************************)
(* The component TemplateValidator (TemplateValidator.tsx): its state is   *)
(* the six useState values.  last names the event handled last.            *)
(***************************************************************************)
\* the text ""
EmptyText == MalformedText(<<>>, Chars_unexpected_end)

UIState(jsonInput, validationStatus, errorMessage, validationResults, parsedTemplate, activeTab, last) ==
    [jsonInput |-> jsonInput, validationStatus |-> validationStatus,
     errorMessage |-> errorMessage, validationResults |-> validationResults,
     parsedTemplate |-> parsedTemplate, activeTab |-> activeTab, last |-> last]

\* the initial values of the useState hooks
UIInitial == UIState(EmptyText, "idle", "", <<>>, Absent, "input", "mount")

(***************************************************************************)
(* State machine.                                                          *)
(***************************************************************************)
NoArg == [kind |-> "none"]

\* the state after `new TemplateValidator()`
InitValidator ==
    /\ heap = newTemplateValidator(<<>>, 1).heap
    /\ nextRef = newTemplateValidator(<<>>, 1).nextRef
    /\ this = newTemplateValidator(<<>>, 1).instance
    /\ reports = <<>>
    /\ parsed = <<>>
    /\ ui = UIInitial
    /\ stats = <<>>

Init ==
    /\ InitValidator
    /\ arg = NoArg

\* validator.validate(t) on the long-lived instance
Validate(t) ==
    /\ Len(reports) < MaxCalls
    /\ \E reset \in {resetArrays(heap, nextRef, this)} :
       \E h \in {pushAll(reset.heap, reset.instance, runPasses(t))} :
           /\ heap' = h
           /\ nextRef' = reset.nextRef
           /\ this' = reset.instance
           /\ reports' = Append(reports, [template |-> t, call |-> "validate",
                                          passes |-> passCalls(t),
                                          result |-> resultOf(h, reset.instance)])
    /\ UNCHANGED <<arg, parsed, ui, stats>>

\* validateTemplate(t): a new validator for this one call
ValidateTemplate(t) ==
    /\ Len(reports) < MaxCalls
    /\ \E made \in {newTemplateValidator(heap, nextRef)} :
       \E reset \in {resetArrays(made.heap, made.nextRef, made.instance)} :
       \E h \in {pushAll(reset.heap, reset.instance, runPasses(t))} :
           /\ heap' = h
           /\ nextRef' = reset.nextRef
           /\ reports' = Append(reports, [template |-> t, call |-> "validateTemplate",
                                          passes |-> passCalls(t),
                                          result |-> resultOf(h, reset.instance)])
    /\ UNCHANGED <<this, arg, parsed, ui, stats>>

Next ==
    \E t \in Templates :
        \/ Validate(t)
        \/ ValidateTemplate(t)

Spec == Init /\ [][Next]_vars

(***************************************************************************)
(* Single-call specifications: Init draws the template, one validate call  *)
(* is made on it.                                                          *)
(***************************************************************************)
ValidateArg ==
    /\ Len(reports) = 0
    /\ Validate(arg)

Categories == {"MARKETING", "UTILITY", "AUTHENTICATION"}

\* absent, and the values around zero and around every bound of the TTL checks
TTLValues ==
    {Absent} \cup
    {Some(v) : v \in {-5, 0, 1, TTL_MIN - 1, TTL_MIN, TTL_MIN + 1,
                      AUTH_TTL_MAX - 1, AUTH_TTL_MAX, AUTH_TTL_MAX + 1, 1000,
                      UTILITY_TTL_MAX - 1, UTILITY_TTL_MAX, UTILITY_TTL_MAX + 1,
                      TTL_MAX - 1, TTL_MAX, TTL_MAX + 1}}

TTLTemplates ==
    {T(c, Absent, ttl, comps) :
        c \in Categories, ttl \in TTLValues,
        comps \in {<<Body(Chars_hi, Some(TRUE))>>,
                   <<Header(Some("TEXT"), Some(Chars_hi), Absent), Body(Var("1"), Absent),
                     Buttons(<<URLButton(Chars_ok, Chars_url)>>)>>}}

InitTTL ==
    /\ InitValidator
    /\ arg \in TTLTemplates

SpecTTL == InitTTL /\ [][ValidateArg]_vars

\* the pieces generated texts are made of: placeholders, a placeholder with a
\* leading zero, a malformed placeholder, a letter and a lone brace
Tokens ==
    { Var("1"), Var("2"), Var("3"), <<"{", "{", "0", "1", "}", "}">>,
      Var("a"), <<"a">>, <<"{">> }

RECURSIVE TextsOf(_)
TextsOf(n) ==
    IF n = 0 THEN {<<>>}
    ELSE TextsOf(n - 1) \cup {x \o tok : x \in TextsOf(n - 1), tok \in Tokens}

Texts == TextsOf(MaxTokens)

\* a generated text as the body text, as the text of a TEXT header, and after the
\* scheme of a URL button's url
VarTemplates ==
    {T("UTILITY", Absent, Some(600), <<Body(x, Absent)>>) : x \in Texts}
    \cup {T("UTILITY", Absent, Some(600),
             <<Header(Some("TEXT"), Some(x), Absent), Body(Chars_hi, Absent)>>) :
          x \in Texts}
    \cup {T("UTILITY", Absent, Some(600),
             <<Body(Var("1"), Absent),
               Buttons(<<Button("QUICK_REPLY", Some(Chars_ok)),
                         URLButton(Chars_ok, Chars_url \o x)>>)>>) :
          x \in Texts}

InitVars ==
    /\ InitValidator
    /\ arg \in VarTemplates

SpecVars == InitVars /\ [][ValidateArg]_vars

(***************************************************************************)
(* TemplateParser.parseJSON.  JSON.parse belongs to the platform: for an   *)
(* input text it either returns the value the text denotes or throws a     *)
(* SyntaxError whose message depends on the engine and may or may not hold *)
(* "at position N".  An input is the text together with that outcome.      *)
(***************************************************************************)
\* the text "null"
NullText ==
    [text |-> <<"n", "u", "l", "l">>, kind |-> "null", message |-> <<>>, value |-> NoDoc]

\* a text that denotes the object doc; the code does not look at the text again
Document(doc) ==
    [text |-> <<>>, kind |-> "object", message |-> <<>>, value |-> doc]

\* a sequence of one-character strings as one string
RECURSIVE Str(_)
Str(cs) == IF Len(cs) = 0 THEN "" ELSE Head(cs) \o Str(Tail(cs))

Chars_at_position == <<"a", "t", " ", "p", "o", "s", "i", "t", "i", "o", "n", " ">>

\* error.message.match(/at position (\d+)/): the captured digits, if any
matchPosition(message) ==
    LET n == Len(Chars_at_position)
        starts == {i \in 1..Len(message) :
                      /\ i + n <= Len(message)
                      /\ SubSeq(message, i, i + n - 1) = Chars_at_position
                      /\ message[i + n] \in Digits}
    IN  IF starts = {} THEN Absent
        ELSE Some(SubSeq(message, Min(starts) + n,
                         DigitRunEnd(message, Min(starts) + n) - 1))

\* text.split('\n'): the pieces between the newline characters
RECURSIVE splitLines(_)
splitLines(text) ==
    IF \A k \in 1..Len(text) : text[k] /= "\n" THEN <<text>>
    ELSE LET first == Min({k \in 1..Len(text) : text[k] = "\n"})
         IN  <<SubSeq(text, 1, first - 1)>>
             \o splitLines(SubSeq(text, first + 1, Len(text)))

\* the whole text is split, not the part before the position
getLineAndColumn_wholeText(text, position) ==
    [line |-> Len(splitLines(text)),
     column |-> Len(splitLines(text)[Len(splitLines(text))]) + 1]

\* lines = text.substring(0, position).split('\n')
getLineAndColumn(text, position) ==
    LET lines == splitLines(SubSeq(text, 1, Min({position, Len(text)})))
    IN  [line |-> Len(lines),
         column |-> Len(lines[Len(lines)]) + 1]

ParseResult(success, data, error, lineNumber, column) ==
    [success |-> success, data |-> data, error |-> error,
     lineNumber |-> lineNumber, column |-> column]

\* the issues of WhatsAppTemplateSchema.parse(rawData)
issuesOf(input) ==
    IF input.kind = "null" THEN Issue("Expected object, received null", "", TRUE)
    ELSE WhatsAppTemplateSchema(input.value)

\* the last issue is reported
schemaFailure_lastIssue(errors) ==
    ParseResult(FALSE, Absent,
                Some("Validation error: " \o errors[Len(errors)].message \o " at "
                         \o errors[Len(errors)].path),
                Absent, Absent)

\* the ZodError branch: firstError = error.errors[0]
schemaFailure(errors) ==
    ParseResult(FALSE, Absent,
                Some("Validation error: " \o errors[1].message \o " at " \o errors[1].path),
                Absent, Absent)

\* the SyntaxError branch
syntaxFailure(text, message) ==
    LET match == matchPosition(message)
        position == IF IsPresent(match) THEN parseInt(Get(match)) ELSE 0
    IN  ParseResult(FALSE, Absent, Some("JSON syntax error: " \o Str(message)),
                    Some(getLineAndColumn(text, position).line),
                    Some(getLineAndColumn(text, position).column))

parseJSON(input) ==
    IF input.kind = "SyntaxError" THEN syntaxFailure(input.text, input.message)
    ELSE IF issuesOf(input) /= <<>> THEN schemaFailure(issuesOf(input))
    ELSE ParseResult(TRUE, Some(validatedData(input.value)), Absent, Absent, Absent)

\* TemplateParser.parseJSON(arg): the validator is not involved
ParseJSON ==
    /\ Len(parsed) = 0
    /\ \E result \in {parseJSON(arg)} :
           parsed' = Append(parsed, [input |-> arg, result |-> result])
    /\ UNCHANGED <<heap, nextRef, this, reports, arg, ui, stats>>

(***************************************************************************)
(* The inputs of the parsing specification.                                *)
(***************************************************************************)
RawDoc(name, language, category, ttl, components) ==
    [name |-> name, language |-> language, category |-> category,
     subCategory |-> Absent, messageSendTtlSeconds |-> ttl,
     components |-> components]

\* a document that differs from an accepted one in its components only
Doc(components) ==
    RawDoc(Some(Chars_name), Some(Chars_en), Some("MARKETING"), Absent, Some(components))

Chars_bad_name == <<"x", "!">>
Chars_en_US == <<"e", "n", "_", "U", "S">>

\* malformed texts on one, two and three lines
MalformedTexts ==
    { <<"{", "\"", "a", "\"", "}">>,
      <<"{", "\n", "\"", "a", "\"", "\n", "}">>,
      <<"\n", "\n", "{", ",", "}", "\n">> }

DigitChars == <<"0", "1", "2", "3", "4", "5", "6", "7", "8", "9">>

Chars_unexpected == <<"U", "n", "e", "x", "p", "e", "c", "t", "e", "d", " ", "t", "o", "k", "e", "n", " ", "}", " ", "i", "n", " ", "J", "S", "O", "N", " ">>

\* the messages engines give for a failure at offset p: with the offset, and without
SyntaxMessages(p) ==
    { Chars_unexpected \o Chars_at_position \o <<DigitChars[p + 1]>>,
      Chars_unexpected_end }

ComponentLists ==
    { <<>>,
      <<Body(Chars_hi, Absent)>>,
      <<Body(<<>>, Absent)>>,
      <<Body(Var("1") \o Var("3"), Absent)>>,
      <<Body(Var("a"), Absent)>>,
      <<Body(Chars_hi, Absent), Body(Chars_hi, Absent)>>,
      <<Footer(Chars_ok)>>,
      <<Footer(Var("1")), Body(Chars_hi, Absent)>>,
      <<Header(Some("TEXT"), Absent, Absent), Body(Chars_hi, Absent)>>,
      <<Header(Some("IMAGE"), Absent, Example(Some(<<Chars_jpg>>))), Body(Chars_hi, Absent)>>,
      <<Header(Some("IMAGE"), Absent, Example(Some(<<Chars_ok>>))), Body(Chars_hi, Absent)>>,
      <<Header(Some("GIF"), Absent, Absent), Body(Chars_hi, Absent)>>,
      <<[type |-> "CAROUSEL"], Footer(Chars_ok)>>,
      <<Body(Chars_hi, Absent), Buttons(<<>>)>>,
      <<Body(Chars_hi, Absent),
        Buttons(<<Button("QUICK_REPLY", Some(Chars_ok)), URLButton(Chars_ok, Chars_url),
                  Button("QUICK_REPLY", Some(Chars_ok))>>)>>,
      <<Body(Chars_hi, Absent),
        Buttons(<<Button("QUICK_REPLY", Absent), Button("COPY_CODE", Absent),
                  Button("COPY_CODE", Absent)>>)>>,
      <<Body(Chars_hi, Absent),
        Buttons(<<Button("SHARE", Absent), URLButton(Filler(26), Chars_ok)>>)>>,
      <<Body(Chars_hi, Absent),
        Buttons(<<OTPButton("COPY_CODE", Absent, Absent),
                  Button("CATALOG", Some(Chars_ok))>>)>> }

RawDocs ==
    {RawDoc(name, language, category, ttl, components) :
        name \in {Absent, Some(<<>>), Some(Chars_bad_name), Some(Chars_name)},
        language \in {Absent, Some(<<"e">>), Some(Chars_en), Some(Chars_en_US)},
        category \in {Absent, Some("PROMO"), Some("MARKETING")},
        ttl \in {Absent, Some(TTL_MIN - 1), Some(600), Some(TTL_MAX + 1)},
        components \in {Absent} \cup {Some(cs) : cs \in ComponentLists}}

\* accepted documents but for one generated text: the body text, the text of a
\* TEXT header
BodyTextDoc(x) == Doc(<<Body(x, Absent)>>)

HeaderTextDoc(x) == Doc(<<Header(Some("TEXT"), Some(x), Absent), Body(Chars_hi, Absent)>>)

RawInputs ==
    UNION {{MalformedText(text, message) :
               message \in UNION {SyntaxMessages(p) : p \in 0..Len(text)}} :
           text \in MalformedTexts}
    \cup {NullText}
    \cup {Document(doc) : doc \in RawDocs}
    \cup {Document(BodyTextDoc(x)) : x \in Texts}
    \cup {Document(HeaderTextDoc(x)) : x \in Texts}

InitParse ==
    /\ InitValidator
    /\ arg \in RawInputs

SpecParse == InitParse /\ [][ParseJSON]_vars

(***************************************************************************)
(* The inputs of the button specification: every sequence of at most       *)
(* MaxButtons buttons over the kinds below, and a template with no BUTTONS *)
(* component.                                                              *)
(***************************************************************************)
Chars_phone == <<"+", "1", "2">>

PhoneButton(text, phone_number) ==
    [Button("PHONE_NUMBER", Some(text)) EXCEPT !.phone_number = Some(phone_number)]

ButtonKinds ==
    { Button("QUICK_REPLY", Some(Chars_ok)),
      URLButton(Chars_ok, Chars_url),
      PhoneButton(Chars_ok, Chars_phone),
      Button("COPY_CODE", Absent) }

RECURSIVE ButtonLists(_, _)
ButtonLists(kinds, n) ==
    IF n = 0 THEN {<<>>}
    ELSE ButtonLists(kinds, n - 1)
         \cup {bs \o <<b>> : bs \in ButtonLists(kinds, n - 1), b \in kinds}

ButtonTemplates ==
    {T("UTILITY", Absent, Some(600), <<Body(Chars_hi, Absent)>>)}
    \cup {T("UTILITY", Absent, Some(600), <<Body(Chars_hi, Absent), Buttons(bs)>>) :
            bs \in ButtonLists(ButtonKinds, MaxButtons)}

InitButtons ==
    /\ InitValidator
    /\ arg \in ButtonTemplates

SpecButtons == InitButtons /\ [][ValidateArg]_vars

(***************************************************************************)
(* The inputs of the header specification: a HEADER of every format with   *)
(* and without text and with every example below, and no HEADER at all.    *)
(***************************************************************************)
\* first example URLs: every accepted extension in some case, other extensions, an
\* extension followed by a query, and an extension without its dot
ExampleUrls ==
    { <<"h", ":", "a", ".", "j", "p", "g">>,
      <<"h", ":", "a", ".", "J", "P", "G">>,
      <<"h", ":", "a", ".", "j", "p", "e", "g">>,
      <<"h", ":", "a", ".", "P", "n", "G">>,
      <<"h", ":", "a", ".", "m", "p", "4">>,
      <<"h", ":", "a", ".", "M", "p", "4">>,
      <<"h", ":", "a", ".", "p", "d", "f">>,
      <<"h", ":", "a", ".", "P", "D", "F">>,
      <<"h", ":", "a", ".", "g", "i", "f">>,
      <<"h", ":", "a", ".", "j", "p", "g", "?", "b">>,
      <<"h", ":", "a", "j", "p", "g">>,
      <<"h", ":", "a", ".", "m", "p", "3">> }

\* no example, an example without header_url, with an empty list, with an empty
\* first URL, with one URL, and with a second URL after a first one
HeaderExamples ==
    {Absent, Example(Absent), Example(Some(<<>>)), Example(Some(<<<<>>>>)),
     Example(Some(<<Chars_gif, Chars_jpg>>))}
    \cup {Example(Some(<<u>>)) : u \in ExampleUrls}

HeaderValues ==
    {Header(format, text, example) :
        format \in {Absent} \cup {Some(f) : f \in HeaderFormat},
        text \in {Absent, Some(<<>>), Some(Chars_hi)},
        example \in HeaderExamples}

HeaderTemplates ==
    {T(c, Absent, Some(600), <<Body(Chars_hi, Absent)>>) : c \in {"MARKETING", "UTILITY"}}
    \cup {T(c, Absent, Some(600), <<h, Body(Chars_hi, Absent)>>) :
            c \in {"MARKETING", "UTILITY"}, h \in HeaderValues}

InitHeader ==
    /\ InitValidator
    /\ arg \in HeaderTemplates

SpecHeader == InitHeader /\ [][ValidateArg]_vars

(***************************************************************************)
(* The parsing specification over generated documents: documents that are  *)
(* acceptable but for the component under study.                           *)
(***************************************************************************)
HeaderDocs ==
    {Doc(<<Body(Chars_hi, Absent)>>)}
    \cup {Doc(<<h, Body(Chars_hi, Absent)>>) : h \in HeaderValues}

\* a FOOTER with each generated text, after the body
FooterDocs ==
    {Doc(<<Body(Chars_hi, Absent), Footer(x)>>) : x \in Texts}

\* one acceptable component of each type
ComponentKinds ==
    { Header(Some("TEXT"), Some(Chars_hi), Absent),
      Body(Chars_hi, Absent),
      Footer(Chars_ok),
      Buttons(<<Button("QUICK_REPLY", Some(Chars_ok))>>) }

RECURSIVE ComponentListsOf(_)
ComponentListsOf(n) ==
    IF n = 0 THEN {<<>>}
    ELSE ComponentListsOf(n - 1)
         \cup {cs \o <<c>> : cs \in ComponentListsOf(n - 1), c \in ComponentKinds}

\* every sequence of at most MaxComponents acceptable components
ComponentDocs == {Doc(cs) : cs \in ComponentListsOf(MaxComponents)}

GeneratedDocs == HeaderDocs \cup FooterDocs \cup ComponentDocs

InitDocs ==
    /\ InitValidator
    /\ arg \in {Document(doc) : doc \in GeneratedDocs}

SpecDocs == InitDocs /\ [][ParseJSON]_vars

(***************************************************************************)
(* The inputs of the OTP specification: every sequence of at most          *)
(* MaxOTPButtons buttons over OTP buttons of each otp_type with and        *)
(* without their conditional field, and a quick reply.                     *)
(***************************************************************************)
OTPButtonKinds ==
    { OTPButton("ONE_TAP", Absent, Absent),
      OTPButton("ONE_TAP", Some(<<>>), Absent),
      OTPButton("ONE_TAP", Some(Chars_ok), Absent),
      OTPButton("ZERO_TAP", Absent, Absent),
      OTPButton("ZERO_TAP", Absent, Some(FALSE)),
      OTPButton("ZERO_TAP", Absent, Some(TRUE)),
      OTPButton("COPY_CODE", Absent, Absent),
      Button("QUICK_REPLY", Some(Chars_ok)) }

OTPTemplates ==
    {T("AUTHENTICATION", Absent, Some(600), <<Body(Chars_hi, Some(TRUE)), Buttons(bs)>>) :
        bs \in ButtonLists(OTPButtonKinds, MaxOTPButtons)}

InitOTP ==
    /\ InitValidator
    /\ arg \in OTPTemplates

SpecOTP == InitOTP /\ [][ValidateArg]_vars

(***************************************************************************)
(* The inputs of the length specification: texts whose lengths lie on both *)
(* sides of 90% of the limit and of the limit, for the header, the body,   *)
(* the footer and a button.                                                *)
(***************************************************************************)
\* the lengths around 90% of the limit and around the limit
LengthsAround(limit) ==
    {(9 * limit) \div 10 - 1, (9 * limit) \div 10, (9 * limit) \div 10 + 1,
     limit - 1, limit, limit + 1}

LimitHeaders ==
    {<<>>, <<Header(Some("IMAGE"), Some(Filler(HEADER_LIMIT + 1)), Absent)>>,
     <<Header(Some("TEXT"), Some(<<>>), Absent)>>}
    \cup {<<Header(Some("TEXT"), Some(Filler(n)), Absent)>> : n \in LengthsAround(HEADER_LIMIT)}

LimitBodies ==
    {<<Body(Filler(n), Absent)>> : n \in {0, 2} \cup LengthsAround(BODY_LIMIT)}

LimitFooters ==
    {<<>>} \cup {<<Footer(Filler(n))>> : n \in LengthsAround(FOOTER_LIMIT)}

LimitButtons ==
    {<<>>, <<Buttons(<<Button("COPY_CODE", Absent)>>)>>}
    \cup {<<Buttons(<<Button("QUICK_REPLY", Some(Chars_ok)),
                      Button("QUICK_REPLY", Some(Filler(n)))>>)>> :
            n \in LengthsAround(BUTTON_LIMIT)}

LimitTemplates ==
    {T("UTILITY", Absent, Some(600), h \o b \o f \o bs) :
        h \in LimitHeaders, b \in LimitBodies, f \in LimitFooters, bs \in LimitButtons}

InitLimits ==
    /\ InitValidator
    /\ arg \in LimitTemplates

SpecLimits == InitLimits /\ [][ValidateArg]_vars

(***************************************************************************)
(* The inputs of the category specification: every category with every     *)
(* subCategory, TTLs inside and outside each window, and components with   *)
(* and without a HEADER, a BODY with each value of                         *)
(* add_security_recommendation, and BUTTONS components with and without an *)
(* OTP button.                                                             *)
(***************************************************************************)
CategoryTTLs ==
    {Absent, Some(0), Some(600), Some(1000), Some(50000), Some(TTL_MAX + 1)}

CategoryHeaders == {<<>>, <<Header(Some("TEXT"), Some(Chars_hi), Absent)>>}

CategoryBodies ==
    {<<>>, <<Body(Chars_hi, Absent)>>, <<Body(Chars_hi, Some(FALSE))>>,
     <<Body(Chars_hi, Some(TRUE))>>}

CategoryButtons ==
    {<<>>,
     <<Buttons(<<>>)>>,
     <<Buttons(<<Button("QUICK_REPLY", Some(Chars_ok))>>)>>,
     <<Buttons(<<OTPButton("COPY_CODE", Absent, Absent)>>)>>,
     <<Buttons(<<Button("QUICK_REPLY", Some(Chars_ok)),
                 OTPButton("COPY_CODE", Absent, Absent)>>)>>,
     <<Buttons(<<URLButton(Chars_ok, Chars_url)>>)>>,
     <<Buttons(<<Button("QUICK_REPLY", Some(Chars_ok))>>),
       Buttons(<<OTPButton("COPY_CODE", Absent, Absent)>>)>>,
     <<Buttons(<<OTPButton("COPY_CODE", Absent, Absent)>>),
       Buttons(<<Button("QUICK_REPLY", Some(Chars_ok))>>)>>}

CategoryTemplates ==
    {T(c, sub, ttl, h \o b \o bs) :
        c \in Categories,
        sub \in {Absent, Some("ORDER_STATUS"), Some("CUSTOM")},
        ttl \in CategoryTTLs,
        h \in CategoryHeaders, b \in CategoryBodies, bs \in CategoryButtons}

InitCategory ==
    /\ InitValidator
    /\ arg \in CategoryTemplates

SpecCategory == InitCategory /\ [][ValidateArg]_vars

(***************************************************************************)
(* The inputs of the order specification: every sequence of at most        *)
(* MaxComponents components over one component of each type (the HEADER    *)
(* an IMAGE header without example, which the later passes reject), in     *)
(* the categories MARKETING and AUTHENTICATION.  validate is called on the *)
(* template and then on one of the reorderings of its components.          *)
(***************************************************************************)
OrderKinds ==
    { Header(Some("IMAGE"), Absent, Absent),
      Body(Chars_hi, Absent),
      Footer(Chars_ok),
      Buttons(<<Button("QUICK_REPLY", Some(Chars_ok))>>) }

RECURSIVE OrderListsOf(_)
OrderListsOf(n) ==
    IF n = 0 THEN {<<>>}
    ELSE OrderListsOf(n - 1)
         \cup {cs \o <<c>> : cs \in OrderListsOf(n - 1), c \in OrderKinds}

OrderTemplates ==
    {T(c, Absent, Absent, cs) :
        c \in {"MARKETING", "AUTHENTICATION"}, cs \in OrderListsOf(MaxComponents)}

Reorderings(components) ==
    {[k \in 1..Len(components) |-> components[p[k]]] :
        p \in Permutations(1..Len(components))}

InitOrder ==
    /\ InitValidator
    /\ arg \in OrderTemplates

ValidateReordered ==
    /\ Len(reports) = 1
    /\ \E cs \in Reorderings(arg.components) :
           Validate([arg EXCEPT !.components = cs])

SpecOrder == InitOrder /\ [][ValidateArg \/ ValidateReordered]_vars

(***************************************************************************)
(* TemplateParser.generateExampleTemplate: the example template of a       *)
(* category.                                                               *)
(***************************************************************************)
\* the characters of a category name
CategoryChars(category) ==
    CASE category = "MARKETING" -> <<"M", "A", "R", "K", "E", "T", "I", "N", "G">>
      [] category = "UTILITY" -> <<"U", "T", "I", "L", "I", "T", "Y">>
      [] category = "AUTHENTICATION" ->
             <<"A", "U", "T", "H", "E", "N", "T", "I", "C", "A", "T", "I", "O", "N">>

Alphabet ==
    <<"a", "b", "c", "d", "e", "f", "g", "h", "i", "j", "k", "l", "m",
      "n", "o", "p", "q", "r", "s", "t", "u", "v", "w", "x", "y", "z">>

AlphabetUpper ==
    <<"A", "B", "C", "D", "E", "F", "G", "H", "I", "J", "K", "L", "M",
      "N", "O", "P", "Q", "R", "S", "T", "U", "V", "W", "X", "Y", "Z">>

\* String.prototype.toLowerCase on ASCII text
toLowerCaseAll(cs) ==
    [k \in 1..Len(cs) |->
        IF cs[k] \in Upper
        THEN Alphabet[CHOOSE n \in 1..26 : AlphabetUpper[n] = cs[k]]
        ELSE cs[k]]

Chars_example_ ==
    <<"e", "x", "a", "m", "p", "l", "e", "_">>

Chars__template ==
    <<"_", "t", "e", "m", "p", "l", "a", "t", "e">>

Chars_auth_body ==
    <<"{", "{", "1", "}", "}", " ", "i", "s", " ", "y", "o", "u", "r", " ",
      "v", "e", "r", "i", "f", "i", "c", "a", "t", "i", "o", "n", " ", "c",
      "o", "d", "e", ".", " ", "F", "o", "r", " ", "y", "o", "u", "r", " ",
      "s", "e", "c", "u", "r", "i", "t", "y", ",", " ", "d", "o", " ", "n",
      "o", "t", " ", "s", "h", "a", "r", "e", " ", "t", "h", "i", "s", " ",
      "c", "o", "d", "e", ".">>

Chars_auth_footer ==
    <<"T", "h", "i", "s", " ", "c", "o", "d", "e", " ", "e", "x", "p", "i",
      "r", "e", "s", " ", "i", "n", " ", "5", " ", "m", "i", "n", "u", "t",
      "e", "s", ".">>

Chars_copy_code ==
    <<"C", "o", "p", "y", " ", "C", "o", "d", "e">>

Chars_123456 ==
    <<"1", "2", "3", "4", "5", "6">>

Chars_utility_body ==
    <<"Y", "o", "u", "r", " ", "o", "r", "d", "e", "r", " ", "{", "{", "1",
      "}", "}", " ", "f", "o", "r", " ", "a", " ", "t", "o", "t", "a", "l",
      " ", "o", "f", " ", "{", "{", "2", "}", "}", " ", "i", "s", " ", "c",
      "o", "n", "f", "i", "r", "m", "e", "d", ".", " ", "T", "h", "e", " ",
      "e", "x", "p", "e", "c", "t", "e", "d", " ", "d", "e", "l", "i", "v",
      "e", "r", "y", " ", "i", "s", " ", "{", "{", "3", "}", "}", ".">>

Chars_order_5555 ==
    <<"O", "R", "D", "E", "R", "-", "5", "5", "5", "5">>

Chars_99_usd ==
    <<"9", "9", " ", "U", "S", "D">>

Chars_february ==
    <<"F", "e", "b", "r", "u", "a", "r", "y", " ", "2", "5", ",", " ", "2",
      "0", "2", "3">>

Chars_image_url ==
    <<"h", "t", "t", "p", "s", ":", "/", "/", "e", "x", "a", "m", "p", "l",
      "e", ".", "c", "o", "m", "/", "i", "m", "a", "g", "e", ".", "j", "p",
      "g">>

Chars_marketing_body ==
    <<"H", "i", " ", "{", "{", "1", "}", "}", ",", " ", "c", "h", "e", "c",
      "k", " ", "o", "u", "t", " ", "o", "u", "r", " ", "a", "m", "a", "z",
      "i", "n", "g", " ", "d", "e", "a", "l", "s", "!", " ", "G", "e", "t",
      " ", "{", "{", "2", "}", "}", " ", "o", "f", "f", " ", "y", "o", "u",
      "r", " ", "n", "e", "x", "t", " ", "p", "u", "r", "c", "h", "a", "s",
      "e", ".">>

Chars_john ==
    <<"J", "o", "h", "n">>

Chars_20_percent ==
    <<"2", "0", "%">>

Chars_limited ==
    <<"L", "i", "m", "i", "t", "e", "d", " ", "t", "i", "m", "e", " ", "o",
      "f", "f", "e", "r">>

Chars_shop_now ==
    <<"S", "h", "o", "p", " ", "N", "o", "w">>

Chars_shop_url ==
    <<"h", "t", "t", "p", "s", ":", "/", "/", "e", "x", "a", "m", "p", "l",
      "e", ".", "c", "o", "m", "/", "s", "h", "o", "p">>

Chars_learn_more ==
    <<"L", "e", "a", "r", "n", " ", "M", "o", "r", "e">>

\* example: { body_text: [[...]] }
BodyExample(values) == Some([header_url |-> Absent, body_text |-> Some(<<values>>)])

generateExampleTemplate(category) ==
    CASE category = "AUTHENTICATION" ->
             Template(Chars_example_ \o toLowerCaseAll(CategoryChars(category)) \o Chars__template,
                      Chars_en_US, category, Absent, Some(600),
                      << [Body(Chars_auth_body, Some(TRUE))
                             EXCEPT !.example = BodyExample(<<Chars_123456>>)],
                         [Footer(Chars_auth_footer) EXCEPT !.code_expiration_minutes = Some(5)],
                         Buttons(<<[OTPButton("COPY_CODE", Absent, Absent)
                                       EXCEPT !.text = Some(Chars_copy_code)]>>) >>)
      [] category = "UTILITY" ->
             Template(Chars_example_ \o toLowerCaseAll(CategoryChars(category)) \o Chars__template,
                      Chars_en_US, category, Absent, Absent,
                      << [Body(Chars_utility_body, Absent)
                             EXCEPT !.example = BodyExample(<<Chars_order_5555, Chars_99_usd,
                                                              Chars_february>>)] >>)
      [] category = "MARKETING" ->
             Template(Chars_example_ \o toLowerCaseAll(CategoryChars(category)) \o Chars__template,
                      Chars_en_US, category, Absent, Absent,
                      << Header(Some("IMAGE"), Absent, Example(Some(<<Chars_image_url>>))),
                         [Body(Chars_marketing_body, Absent)
                             EXCEPT !.example = BodyExample(<<Chars_john, Chars_20_percent>>)],
                         Footer(Chars_limited),
                         Buttons(<<URLButton(Chars_shop_now, Chars_shop_url),
                                   Button("QUICK_REPLY", Some(Chars_learn_more))>>) >>)

(***************************************************************************)
(* The examples specification: up to MaxCalls calls of validate and        *)
(* validateTemplate on generated examples, and up to MaxCalls calls of     *)
(* parseJSON on their JSON texts, in any order.                            *)
(***************************************************************************)
\* JSON.parse(JSON.stringify(template)): every key of the template is kept
AsDocument(template) ==
    Document([name |-> Some(template.name), language |-> Some(template.language),
              category |-> Some(template.category), subCategory |-> template.subCategory,
              messageSendTtlSeconds |-> template.messageSendTtlSeconds,
              components |-> Some(template.components)])

ParseExample(category) ==
    /\ Len(parsed) < MaxCalls
    /\ \E input \in {AsDocument(generateExampleTemplate(category))} :
           parsed' = Append(parsed, [input |-> input, result |-> parseJSON(input)])
    /\ UNCHANGED <<heap, nextRef, this, reports, arg, ui, stats>>

InitExamples ==
    /\ InitValidator
    /\ arg = NoDoc

NextExamples ==
    \E category \in Categories :
        \/ ParseExample(category)
        \/ Validate(generateExampleTemplate(category))
        \/ ValidateTemplate(generateExampleTemplate(category))

SpecExamples == InitExamples /\ [][NextExamples]_vars

(***************************************************************************)
(* The handlers of the component TemplateValidator.                        *)
(***************************************************************************)
Whitespace == {" ", "\n", "\t", "\r"}

\* !jsonInput.trim()
isBlank(text) == \A k \in 1..Len(text) : text[k] \in Whitespace

\* the checks on parsed.name, parsed.language and parsed.category
checkTopLevel(doc) ==
    (IF ~TruthyStr(doc.name) THEN <<"Template name is required">>
     ELSE When(~isTemplateName(Get(doc.name)),
               <<"Template name can only contain lowercase letters, numbers, and underscores">>))
    \o When(~TruthyStr(doc.language), <<"Language code is required">>)
    \o (IF ~IsPresent(doc.category) THEN <<"Category is required">>
        ELSE When(Get(doc.category) \notin {"MARKETING", "UTILITY", "AUTHENTICATION"},
                  <<"Category must be MARKETING, UTILITY, or AUTHENTICATION">>))

bodyCount(components) ==
    Cardinality({k \in 1..Len(components) : components[k].type = "BODY"})

\* the errors the forEach over the components pushes for one component
limitErrors(component) ==
    CASE component.type = "BODY" ->
             When(Len(component.text) > 1024,
                  <<"Body text exceeds 1024 character limit ("
                        \o ToString(Len(component.text)) \o " characters)">>)
      [] component.type = "HEADER" ->
             When(/\ component.format = Some("TEXT")
                  /\ TruthyStr(component.text)
                  /\ Len(Get(component.text)) > 60,
                  <<"Header text exceeds 60 character limit ("
                        \o ToString(Len(Get(component.text))) \o " characters)">>)
      [] component.type = "FOOTER" ->
             When(Len(component.text) > 60,
                  <<"Footer text exceeds 60 character limit ("
                        \o ToString(Len(component.text)) \o " characters)">>)
      [] OTHER -> <<>>

\* the warnings the forEach pushes for one component
limitWarnings(component) ==
    When(/\ component.type = "BODY"
         /\ Len(component.text) <= 1024
         /\ Len(component.text) > 900,
         <<"Body text is close to 1024 character limit ("
               \o ToString(Len(component.text)) \o " characters)">>)

\* the array errors at the end of the try block
uiErrors(doc) ==
    checkTopLevel(doc)
    \o (IF ~IsPresent(doc.components) THEN <<"Components array is required">>
        ELSE (IF bodyCount(Get(doc.components)) = 0
              THEN <<"Template must have at least one BODY component">>
              ELSE When(bodyCount(Get(doc.components)) > 1,
                        <<"Template can have only one BODY component">>))
             \o forEach([k \in 1..Len(Get(doc.components)) |->
                            limitErrors(Get(doc.components)[k])]))

\* the array warnings at the end of the try block
uiWarnings(doc) ==
    When(IsPresent(doc.components),
         forEach([k \in 1..Len(Get(doc.components)) |->
                    limitWarnings(Get(doc.components)[k])]))

asResults(messages, type) ==
    [k \in 1..Len(messages) |-> [type |-> type, message |-> messages[k]]]

\* the catch block: JSON.parse threw, or reading parsed.name of null did
caught(u, message) ==
    [u EXCEPT !.validationStatus = "error",
              !.errorMessage = "JSON parsing error: " \o message,
              !.validationResults = <<>>,
              !.parsedTemplate = Absent,
              !.activeTab = "input",
              !.last = "validate"]

\* handleValidate: the state once the handler has run
handleValidate(u) ==
    IF isBlank(u.jsonInput.text)
    THEN [u EXCEPT !.validationStatus = "error",
                   !.errorMessage = "Please enter a template JSON",
                   !.last = "validate"]
    ELSE IF u.jsonInput.kind = "SyntaxError" THEN caught(u, Str(u.jsonInput.message))
    ELSE IF u.jsonInput.kind = "null"
    THEN caught(u, "Cannot read properties of null (reading 'name')")
    ELSE IF uiErrors(u.jsonInput.value) = <<>>
    THEN [u EXCEPT !.validationStatus = "success",
                   !.errorMessage = "",
                   !.validationResults = asResults(uiWarnings(u.jsonInput.value), "warning"),
                   !.parsedTemplate = Some(u.jsonInput.value),
                   !.activeTab = "preview",
                   !.last = "validate"]
    ELSE [u EXCEPT !.validationStatus = "error",
                   !.errorMessage = "",
                   !.validationResults =
                       asResults(uiErrors(u.jsonInput.value), "error")
                       \o asResults(uiWarnings(u.jsonInput.value), "warning"),
                   !.parsedTemplate = Absent,
                   !.activeTab = "results",
                   !.last = "validate"]

\* JSON.stringify(example, null, 2): a text that denotes the document; the
\* handlers look only at whether a text is blank, so it is abbreviated
JsonText(doc) == [Document(doc) EXCEPT !.text = <<"{">>]

Chars_marketing_example ==
    <<"m", "a", "r", "k", "e", "t", "i", "n", "g", "_", "e", "x", "a", "m", "p", "l", "e">>
Chars_utility_example ==
    <<"u", "t", "i", "l", "i", "t", "y", "_", "e", "x", "a", "m", "p", "l", "e">>
Chars_auth_example == <<"a", "u", "t", "h", "_", "e", "x", "a", "m", "p", "l", "e">>

\* the object examples of loadExampleTemplate: each is the example of
\* generateExampleTemplate under another name
examples(category) ==
    [generateExampleTemplate(category) EXCEPT
        !.name = CASE category = "MARKETING" -> Chars_marketing_example
                   [] category = "UTILITY" -> Chars_utility_example
                   [] category = "AUTHENTICATION" -> Chars_auth_example]

\* loadExampleTemplate(category), category one of the three buttons
loadExampleTemplate(category) ==
    UIState(JsonText(AsDocument(examples(category)).value), "idle", "", <<>>, Absent,
            "input", "loadExample")

\* the Validate button: disabled while validating or while the input is blank
ClickValidate ==
    /\ ui.validationStatus /= "validating"
    /\ ~isBlank(ui.jsonInput.text)
    /\ ui' = handleValidate(ui)
    /\ UNCHANGED <<heap, nextRef, this, reports, arg, parsed, stats>>

\* Textarea onChange: setJsonInput(e.target.value)
EditInput(input) ==
    /\ ui' = [ui EXCEPT !.jsonInput = input, !.last = "edit"]
    /\ UNCHANGED <<heap, nextRef, this, reports, arg, parsed, stats>>

\* reader.onload of an uploaded file: setJsonInput(content)
UploadFile(input) ==
    /\ ui' = [ui EXCEPT !.jsonInput = input, !.last = "upload"]
    /\ UNCHANGED <<heap, nextRef, this, reports, arg, parsed, stats>>

LoadExample(category) ==
    /\ ui' = loadExampleTemplate(category)
    /\ UNCHANGED <<heap, nextRef, this, reports, arg, parsed, stats>>

\* every trigger is enabled
SwitchTab_enabled(tab) ==
    /\ ui' = [ui EXCEPT !.activeTab = tab, !.last = "tab"]
    /\ UNCHANGED <<heap, nextRef, this, reports, arg, parsed, stats>>

\* Tabs onValueChange={setActiveTab}: the triggers of results and preview are
\* disabled without results and without a parsed template
SwitchTab(tab) ==
    /\ tab = "results" => ui.validationResults /= <<>>
    /\ tab = "preview" => IsPresent(ui.parsedTemplate)
    /\ ui' = [ui EXCEPT !.activeTab = tab, !.last = "tab"]
    /\ UNCHANGED <<heap, nextRef, this, reports, arg, parsed, stats>>

(***************************************************************************)
(* The inputs of the component specification: blank texts, malformed       *)
(* texts, the text null, and documents the handler accepts and rejects,    *)
(* among them documents the schema or the rules reject.                    *)
(***************************************************************************)
UITexts ==
    { EmptyText,
      MalformedText(<<" ", "\n">>, Chars_unexpected_end),
      MalformedText(<<"{">>, Chars_unexpected_end),
      NullText,
      JsonText(NoDoc),
      JsonText(Doc(<<Body(Chars_hi, Absent)>>)),
      JsonText(Doc(<<Body(Var("1") \o Var("3"), Absent)>>)),
      JsonText(RawDoc(Some(Chars_name), Some(<<"E", "N", "G">>), Some("MARKETING"), Absent,
                      Some(<<Body(Chars_hi, Absent)>>))),
      JsonText(RawDoc(Some(Chars_bad_name), Some(Chars_en), Some("PROMO"), Absent,
                      Some(<<Body(Chars_hi, Absent)>>))),
      JsonText(Doc(<<>>)),
      JsonText(Doc(<<Body(Chars_hi, Absent), Body(Chars_ok, Absent)>>)),
      JsonText(Doc(<<Body(Filler(901), Absent)>>)),
      JsonText(Doc(<<Body(Filler(1025), Absent), Footer(Filler(61))>>)),
      JsonText(Doc(<<Header(Some("TEXT"), Some(Filler(61)), Absent),
                     Body(Chars_hi, Absent)>>)),
      JsonText(Doc(<<Header(Some("IMAGE"), Absent, Absent), Body(Chars_hi, Absent),
                     Footer(Chars_ok)>>)) }

InitUI ==
    /\ InitValidator
    /\ arg = NoArg

NextUI ==
    \/ ClickValidate
    \/ \E input \in UITexts : EditInput(input)
    \/ \E input \in UITexts : UploadFile(input)
    \/ \E category \in Categories : LoadExample(category)
    \/ \E tab \in {"input", "results", "preview"} : SwitchTab(tab)

SpecUI == InitUI /\ [][NextUI]_vars

(***************************************************************************)
(* TemplateParser.getTemplateStats and extractVariables.                   *)
(***************************************************************************)
RECURSIVE Sum(_)
Sum(numbers) == IF numbers = <<>> THEN 0 ELSE Head(numbers) + Sum(Tail(numbers))

\* text.match(/\{\{\d+\}\}/g): the number of matches
countVariables(text) == Len(matchAllVariables(text, 1))

\* what one button adds to totalCharacters and to variableCount
buttonCharacters(button) == IF TruthyStr(button.text) THEN Len(Get(button.text)) ELSE 0

buttonVariables(button) == IF TruthyStr(button.url) THEN countVariables(Get(button.url)) ELSE 0

\* what the case of one component adds to totalCharacters
componentCharacters(component) ==
    CASE component.type = "HEADER" ->
             IF component.format = Some("TEXT") /\ TruthyStr(component.text)
             THEN Len(Get(component.text)) ELSE 0
      [] component.type \in {"BODY", "FOOTER"} -> Len(component.text)
      [] component.type = "BUTTONS" ->
             Sum([k \in 1..Len(component.buttons) |-> buttonCharacters(component.buttons[k])])
      [] OTHER -> 0

\* what the case of one component adds to variableCount
componentVariables(component) ==
    CASE component.type = "HEADER" ->
             IF component.format = Some("TEXT") /\ TruthyStr(component.text)
             THEN countVariables(Get(component.text)) ELSE 0
      [] component.type = "BODY" -> countVariables(component.text)
      [] component.type = "BUTTONS" ->
             Sum([k \in 1..Len(component.buttons) |-> buttonVariables(component.buttons[k])])
      [] OTHER -> 0

\* buttonCount = buttons.length: the BUTTONS component met last sets it
lastButtonCount(components) ==
    IF \E k \in 1..Len(components) : components[k].type = "BUTTONS"
    THEN Len(components[CHOOSE k \in 1..Len(components) :
                            /\ components[k].type = "BUTTONS"
                            /\ \A j \in (k + 1)..Len(components) :
                                   components[j].type /= "BUTTONS"].buttons)
    ELSE 0

estimateMessageSize_inclusive(characters) ==
    IF characters <= 100 THEN "Small"
    ELSE IF characters <= 500 THEN "Medium"
    ELSE IF characters <= 1000 THEN "Large"
    ELSE "Very Large"

estimateMessageSize(characters) ==
    IF characters < 100 THEN "Small"
    ELSE IF characters < 500 THEN "Medium"
    ELSE IF characters < 1000 THEN "Large"
    ELSE "Very Large"

getTemplateStats(template) ==
    [totalCharacters |->
         Sum([k \in 1..Len(template.components) |->
                 componentCharacters(template.components[k])]),
     componentCounts |->
         [header |-> countComponents(template.components, "HEADER"),
          body |-> countComponents(template.components, "BODY"),
          footer |-> countComponents(template.components, "FOOTER"),
          buttons |-> countComponents(template.components, "BUTTONS")],
     variableCount |->
         Sum([k \in 1..Len(template.components) |->
                 componentVariables(template.components[k])]),
     buttonCount |-> lastButtonCount(template.components),
     estimatedSize |->
         estimateMessageSize(
             Sum([k \in 1..Len(template.components) |->
                     componentCharacters(template.components[k])]))]

\* extractFromText: one entry for each match of /\{\{(\d+)\}\}/g from position
\* `from`, with match[0] and the 0-based match.index
RECURSIVE extractFromText(_, _, _)
extractFromText(text, componentName, from) ==
    LET starts == {i \in from..Len(text) : VariableMatchEnd(text, i) /= 0}
    IN  IF starts = {} THEN <<>>
        ELSE <<[component |-> componentName,
                variable |-> SubSeq(text, Min(starts), VariableMatchEnd(text, Min(starts)) - 1),
                position |-> Min(starts) - 1]>>
             \o extractFromText(text, componentName, VariableMatchEnd(text, Min(starts)))

\* component.type.toLowerCase()
typeToLowerCase(type) ==
    CASE type = "HEADER" -> "header"
      [] type = "BODY" -> "body"
      [] type = "FOOTER" -> "footer"
      [] type = "BUTTONS" -> "buttons"

\* the entries the case of the component at position i pushes
extractFromComponent(component, i) ==
    CASE component.type = "HEADER" ->
             When(component.format = Some("TEXT") /\ TruthyStr(component.text),
                  extractFromText(Get(component.text),
                                  typeToLowerCase(component.type) \o "[" \o Idx(i) \o "]", 1))
      [] component.type = "BODY" ->
             extractFromText(component.text,
                             typeToLowerCase(component.type) \o "[" \o Idx(i) \o "]", 1)
      [] component.type = "BUTTONS" ->
             forEach([k \in 1..Len(component.buttons) |->
                 When(TruthyStr(component.buttons[k].url),
                      extractFromText(Get(component.buttons[k].url),
                                      typeToLowerCase(component.type) \o "[" \o Idx(i)
                                          \o "].buttons[" \o Idx(k) \o "].url", 1))])
      [] OTHER -> <<>>

\* parseInt(a.variable.match(/\d+/)?.[0] || "0")
variableNumber(entry) == parseInt(SubSeq(entry.variable, 3, Len(entry.variable) - 2))

\* insert the entry after the entries whose number is not greater (the sort is stable)
RECURSIVE insertByNumber(_, _)
insertByNumber(entries, entry) ==
    IF entries = <<>> THEN <<entry>>
    ELSE IF variableNumber(entry) < variableNumber(entries[1]) THEN <<entry>> \o entries
    ELSE <<entries[1]>> \o insertByNumber(Tail(entries), entry)

RECURSIVE sortByNumber(_)
sortByNumber(entries) ==
    IF entries = <<>> THEN <<>>
    ELSE insertByNumber(sortByNumber(SubSeq(entries, 1, Len(entries) - 1)),
                        entries[Len(entries)])

extractVariables(template) ==
    sortByNumber(forEach([i \in 1..Len(template.components) |->
                             extractFromComponent(template.components[i], i)]))

\* getTemplateStats(arg) and extractVariables(arg): neither assigns to the template
GetTemplateStats ==
    /\ Len(stats) = 0
    /\ stats' = Append(stats, [call |-> "getTemplateStats", template |-> arg,
                               result |-> getTemplateStats(arg)])
    /\ UNCHANGED <<heap, nextRef, this, reports, arg, parsed, ui>>

ExtractVariables ==
    /\ Len(stats) <= 1
    /\ \A i \in 1..Len(stats) : stats[i].call /= "extractVariables"
    /\ stats' = Append(stats, [call |-> "extractVariables", template |-> arg,
                               result |-> extractVariables(arg)])
    /\ UNCHANGED <<heap, nextRef, this, reports, arg, parsed, ui>>

(***************************************************************************)
(* The inputs of the statistics specification: validated templates whose   *)
(* total character count lies on both sides of each boundary of the size   *)
(* classes, with and without a TEXT header, a footer and buttons.          *)
(***************************************************************************)
SizeBoundaries == {100, 500, 1000}

Chars_url_1 == Chars_url \o Var("1")
Chars_url_12 == Chars_url \o Var("1") \o Var("2")

StatsHeaders ==
    {<<>>,
     <<Header(Some("TEXT"), Some(Var("1") \o Chars_hi), Absent)>>,
     <<Header(Some("IMAGE"), Some(Chars_hi), Example(Some(<<Chars_jpg>>)))>>}

StatsBodies ==
    {<<Body(Var("1") \o Filler(n), Absent)>> :
        n \in UNION {(b - 18)..(b - 4) : b \in SizeBoundaries}}

StatsFooters == {<<>>, <<Footer(Chars_ok)>>}

StatsButtons ==
    {<<>>,
     <<Buttons(<<URLButton(Chars_ok, Chars_url_1)>>)>>,
     <<Buttons(<<Button("QUICK_REPLY", Some(Chars_ok)),
                 URLButton(Chars_ok, Chars_url_12),
                 OTPButton("COPY_CODE", Absent, Absent)>>)>>}

StatsTemplates ==
    {T("UTILITY", Absent, Some(600), h \o b \o f \o bs) :
        h \in StatsHeaders, b \in StatsBodies, f \in StatsFooters, bs \in StatsButtons}

InitStats ==
    /\ InitValidator
    /\ arg \in StatsTemplates

SpecStats == InitStats /\ [][GetTemplateStats \/ ExtractVariables]_vars

(***************************************************************************)
(* The pipeline parse then validate: parseJSON on a raw document, then      *)
(* validate on the template it returned.  The documents are the templates   *)
(* of the validation specifications written as JSON, and the raw inputs of  *)
(* the parsing specifications.                                              *)
(***************************************************************************)
\* a COPY_CODE button that carries a text, with a body and with a quick reply
CopyCodeTextDocs ==
    {Doc(<<Body(Chars_hi, Absent),
           Buttons(bs \o <<Button("COPY_CODE", Some(Filler(n)))>>)>>) :
        bs \in {<<>>, <<Button("QUICK_REPLY", Some(Filler(BUTTON_LIMIT)))>>},
        n \in {1, BUTTON_LIMIT, BUTTON_LIMIT + 1}}

\* the pools are kept apart: their templates differ in shape
InitPipeline ==
    /\ InitValidator
    /\ \/ \E t \in TTLTemplates : arg = AsDocument(t)
       \/ \E t \in VarTemplates : arg = AsDocument(t)
       \/ \E t \in ButtonTemplates : arg = AsDocument(t)
       \/ \E t \in HeaderTemplates : arg = AsDocument(t)
       \/ \E t \in OTPTemplates : arg = AsDocument(t)
       \/ \E t \in LimitTemplates : arg = AsDocument(t)
       \/ \E t \in CategoryTemplates : arg = AsDocument(t)
       \/ \E t \in OrderTemplates : arg = AsDocument(t)
       \/ \E doc \in GeneratedDocs : arg = Document(doc)
       \/ \E doc \in CopyCodeTextDocs : arg = Document(doc)
       \/ \E doc \in RawDocs : arg = Document(doc)

\* const result = TemplateParser.parseJSON(text); if (result.success)
\* validator.validate(result.data)
ValidateParsed ==
    /\ Len(reports) = 0
    /\ Len(parsed) = 1
    /\ parsed[1].result.success
    /\ Validate(Get(parsed[1].result.data))

SpecPipeline == InitPipeline /\ [][ParseJSON \/ ValidateParsed]_vars

(***************************************************************************)
(* Reading a returned report: the arrays its fields refer to, as they are  *)
(* now.                                                                    *)
(***************************************************************************)
Deref(result) ==
    [isValid |-> result.isValid,
     errors |-> heap[result.errors],
     warnings |-> heap[result.warnings],
     info |-> heap[result.info]]

Returned == {Deref(reports[i].result) : i \in 1..Len(reports)}

(***************************************************************************)
(* C1: in every report returned by validate, isValid is true exactly when  *)
(* the errors list is empty, whatever the warnings and info lists hold.    *)
(***************************************************************************)
C1_IsValidIffNoErrors ==
    \A r \in Returned : r.isValid = (Len(r.errors) = 0)

\* a report with warnings and info and no error, returned as valid
C1_Witness ==
    \E r \in Returned :
        r.isValid /\ Len(r.errors) = 0 /\ Len(r.warnings) > 0 /\ Len(r.info) > 0

(***************************************************************************)
(* C2: every validate call runs the eight passes once each in the order    *)
(* basic structure, category policy, component combinations, variable      *)
(* usage, character limits, button combinations, media requirements, TTL   *)
(* settings, whether or not earlier passes raised errors: each of errors,  *)
(* warnings and info holds what every pass raises on its own, in pass      *)
(* order and then in the order the pass raised them.                       *)
(***************************************************************************)
PassesAlone(t) ==
    <<validateBasicStructure(t), validateCategorySpecificRules(t),
      validateComponentCombinations(t), validateVariableUsage(t),
      validateCharacterLimits(t), validateButtonCombinations(t),
      validateMediaRequirements(t), validateTTLSettings(t)>>

InPassOrder(t, Severity(_)) ==
    forEach([k \in 1..8 |-> SelectSeq(PassesAlone(t)[k], Severity)])

C2_AllPassesInOrder ==
    \A i \in 1..Len(reports) :
        /\ heap[reports[i].result.errors] = InPassOrder(reports[i].template, IsError)
        /\ heap[reports[i].result.warnings] = InPassOrder(reports[i].template, IsWarning)
        /\ heap[reports[i].result.info] = InPassOrder(reports[i].template, IsInfo)

\* a report whose errors come from an early pass and from at least two later ones
C2_Witness ==
    \E i \in 1..Len(reports) :
        \E j, k, l \in 1..8 :
            /\ j <= 3 /\ j < k /\ k < l
            /\ SelectSeq(PassesAlone(reports[i].template)[j], IsError) /= <<>>
            /\ SelectSeq(PassesAlone(reports[i].template)[k], IsError) /= <<>>
            /\ SelectSeq(PassesAlone(reports[i].template)[l], IsError) /= <<>>
            /\ Len(heap[reports[i].result.errors]) >= 3

(***************************************************************************)
(* C3: validate keeps no state across calls.  Every report returned so     *)
(* far, by validate on the one instance or by validateTemplate, reads now  *)
(* as the report a new validator returns for the same template: no         *)
(* diagnostic of another call is in it, and later calls have not changed   *)
(* it.                                                                     *)
(***************************************************************************)
FreshReport(t) ==
    LET made == newTemplateValidator(<<>>, 1)
        reset == resetArrays(made.heap, made.nextRef, made.instance)
        h == pushAll(reset.heap, reset.instance, runPasses(t))
    IN  [isValid |-> isValidOf(h, reset.instance),
         errors |-> h[reset.instance.errors],
         warnings |-> h[reset.instance.warnings],
         info |-> h[reset.instance.info]]

C3_NoStateAcrossCalls ==
    \A i \in 1..Len(reports) :
        Deref(reports[i].result) = FreshReport(reports[i].template)

\* two calls of validate on the one instance, the first with diagnostics of
\* every severity, the second on another template
C3_Witness ==
    /\ Len(reports) = 2
    /\ reports[1].call = "validate" /\ reports[2].call = "validate"
    /\ reports[1].template /= reports[2].template
    /\ Len(heap[reports[1].result.errors]) > 0
    /\ Len(heap[reports[1].result.warnings]) > 0
    /\ Len(heap[reports[1].result.info]) > 0
    /\ reports[2].result.isValid

(***************************************************************************)
(* TTL checks (C8, C9, C10).                                               *)
(***************************************************************************)
IsTtlError(d) == IsError(d) /\ d.field = "messageSendTtlSeconds"
IsTtlInfo(d) == IsInfo(d) /\ d.field = "messageSendTtlSeconds"

\* the category window, bounds inclusive
WindowLow(category) ==
    IF category = "MARKETING" THEN 43200 ELSE 30

WindowHigh(category) ==
    CASE category = "AUTHENTICATION" -> 900
      [] category = "UTILITY" -> 43200
      [] category = "MARKETING" -> 2592000

OutsideWindow(t) ==
    /\ IsPresent(t.messageSendTtlSeconds)
    /\ \/ Get(t.messageSendTtlSeconds) < WindowLow(t.category)
       \/ Get(t.messageSendTtlSeconds) > WindowHigh(t.category)

(***************************************************************************)
(* C8: whenever messageSendTtlSeconds is present, whatever integer it is,  *)
(* pass 2 raises an error on messageSendTtlSeconds exactly when the value  *)
(* lies outside the category window (AUTHENTICATION [30, 900], UTILITY     *)
(* [30, 43200], MARKETING [43200, 2592000], bounds inclusive); when it is  *)
(* absent pass 2 raises no such error.                                     *)
(***************************************************************************)
C8_CategoryTtlWindow ==
    \A i \in 1..Len(reports) :
        (SelectSeq(reports[i].passes[2], IsTtlError) /= <<>>)
            <=> OutsideWindow(reports[i].template)

(***************************************************************************)
(* C9: for a TTL inside the absolute bounds [30, 2592000] and outside the  *)
(* category window (AUTHENTICATION with 1000, say), the whole report holds *)
(* exactly one error on messageSendTtlSeconds: the category pass raises    *)
(* it and the TTL-settings pass raises none.                               *)
(***************************************************************************)
InsideAbsoluteBounds(t) ==
    /\ IsPresent(t.messageSendTtlSeconds)
    /\ Get(t.messageSendTtlSeconds) >= 30
    /\ Get(t.messageSendTtlSeconds) <= 2592000

C9_OneTtlError ==
    \A i \in 1..Len(reports) :
        (InsideAbsoluteBounds(reports[i].template) /\ OutsideWindow(reports[i].template))
        => /\ Len(SelectSeq(heap[reports[i].result.errors], IsTtlError)) = 1
           /\ Len(SelectSeq(reports[i].passes[2], IsTtlError)) = 1
           /\ SelectSeq(reports[i].passes[8], IsTtlError) = <<>>

\* the report for AUTHENTICATION with TTL 1000
C9_Witness ==
    \E i \in 1..Len(reports) :
        /\ reports[i].template.category = "AUTHENTICATION"
        /\ reports[i].template.messageSendTtlSeconds = Some(1000)
        /\ ~reports[i].result.isValid
        /\ Len(SelectSeq(heap[reports[i].result.errors], IsTtlError)) = 1

(***************************************************************************)
(* C10: pass 8, whatever the category: with messageSendTtlSeconds absent   *)
(* it raises exactly one info on messageSendTtlSeconds and no error; with  *)
(* it present, whatever integer it is, it raises no info, and an error on  *)
(* messageSendTtlSeconds exactly when the value is below 30 or above       *)
(* 2592000.                                                                *)
(***************************************************************************)
C10_TtlSettings ==
    \A i \in 1..Len(reports) :
        LET ttl == reports[i].template.messageSendTtlSeconds
            pass8 == reports[i].passes[8]
        IN  IF ~IsPresent(ttl)
            THEN /\ Len(SelectSeq(pass8, IsTtlInfo)) = 1
                 /\ SelectSeq(pass8, IsError) = <<>>
            ELSE /\ SelectSeq(pass8, IsInfo) = <<>>
                 /\ (SelectSeq(pass8, IsTtlError) /= <<>>)
                        <=> (Get(ttl) < 30 \/ Get(ttl) > 2592000)

(***************************************************************************)
(* C4: parseJSON has three kinds of outcome.  Success: success = true, the *)
(* typed template in data, no error, no line or column.  Syntax failure of *)
(* the raw text: success = false, no data, an error message, a lineNumber  *)
(* and a column that are both at least 1.  Structural failure: success =   *)
(* false, no data, no line or column, and an error message that names the  *)
(* first violated field path only (a name that does not match             *)
(* ^[a-z0-9_]+$ is reported at path name).  The failures produce no        *)
(* rule-engine diagnostic.                                                 *)
(***************************************************************************)
NameMismatch(input) ==
    /\ input.kind = "object"
    /\ IsPresent(input.value.name)
    /\ \/ Get(input.value.name) = <<>>
       \/ \E k \in 1..Len(Get(input.value.name)) :
              Get(input.value.name)[k] \notin Lower \cup Digits \cup {"_"}

C4_ParseOutcomes ==
    \A i \in 1..Len(parsed) :
        LET input == parsed[i].input
            result == parsed[i].result
        IN  /\ reports = <<>>
            /\ \A ref \in DOMAIN heap : heap[ref] = <<>>
            /\ IF input.kind = "SyntaxError"
               THEN /\ result.success = FALSE
                    /\ result.data = Absent
                    /\ IsPresent(result.error)
                    /\ IsPresent(result.lineNumber) /\ Get(result.lineNumber) >= 1
                    /\ IsPresent(result.column) /\ Get(result.column) >= 1
               ELSE IF issuesOf(input) /= <<>>
               THEN /\ result.success = FALSE
                    /\ result.data = Absent
                    /\ result.lineNumber = Absent /\ result.column = Absent
                    /\ result.error = Some("Validation error: " \o issuesOf(input)[1].message
                                               \o " at " \o issuesOf(input)[1].path)
                    /\ NameMismatch(input)
                       => result.error \in
                            {Some("Validation error: " \o m \o " at name") :
                                m \in {"Template name is required",
                                       "Template name can only contain lowercase letters, numbers, and underscores"}}
               ELSE /\ result.success = TRUE
                    /\ result.data = Some(validatedData(input.value))
                    /\ result.error = Absent
                    /\ result.lineNumber = Absent /\ result.column = Absent

\* the document {"name":"x!","language":"en","category":"MARKETING",
\* "components":[{"type":"BODY","text":"hi"}]} has been parsed: a failure at name
C4_Witness ==
    \E i \in 1..Len(parsed) :
        /\ parsed[i].input =
               Document(RawDoc(Some(Chars_bad_name), Some(Chars_en), Some("MARKETING"),
                               Absent, Some(<<Body(Chars_hi, Absent)>>)))
        /\ parsed[i].result.success = FALSE
        /\ parsed[i].result.error =
               Some("Validation error: Template name can only contain lowercase letters, numbers, and underscores at name")

(***************************************************************************)
(* Pass 4 (C5, C6): the fields it checks and the placeholders in them,     *)
(* stated without the code's scan and sort.                                *)
(***************************************************************************)
\* the number of {{n}} tokens of the text whose digits read as v
Occurrences(text, v) ==
    Cardinality({p \in 1..Len(text) :
        /\ VariableMatchEnd(text, p) /= 0
        /\ parseInt(SubSeq(text, p + 2, VariableMatchEnd(text, p) - 3)) = v})

PlaceholderCount(text) ==
    Cardinality({p \in 1..Len(text) : VariableMatchEnd(text, p) /= 0})

\* the indices that occur in the text
Indices(text) ==
    {parseInt(SubSeq(text, p + 2, VariableMatchEnd(text, p) - 3)) :
        p \in {q \in 1..Len(text) : VariableMatchEnd(text, q) /= 0}}

\* the placeholders are exactly {{1}}..{{k}}, each once
ExactlyOneToK(text) == Indices(text) = 1..PlaceholderCount(text)

ReusesAnIndex(text) == \E v \in Indices(text) : Occurrences(text, v) >= 2

\* "{{v}}" n times, separated by ", "
RECURSIVE Repeated(_, _)
Repeated(v, n) ==
    IF n = 1 THEN "{{" \o ToString(v) \o "}}"
    ELSE "{{" \o ToString(v) \o "}}, " \o Repeated(v, n - 1)

\* the indices from v up, in ascending order, each as often as it occurs
RECURSIVE FoundFrom(_, _, _)
FoundFrom(text, v, first) ==
    IF \A w \in Indices(text) : w < v THEN ""
    ELSE IF Occurrences(text, v) = 0 THEN FoundFrom(text, v + 1, first)
    ELSE (IF first THEN "" ELSE ", ")
         \o Repeated(v, Occurrences(text, v))
         \o FoundFrom(text, v + 1, FALSE)

\* the fields pass 4 checks, each with its text
CheckedFields(t) ==
    {[field |-> "body.text", text |-> t.components[i].text] :
        i \in {j \in 1..Len(t.components) : t.components[j].type = "BODY"}}
    \cup
    {[field |-> "header.text", text |-> Get(t.components[i].text)] :
        i \in {j \in 1..Len(t.components) :
                  /\ t.components[j].type = "HEADER"
                  /\ t.components[j].format = Some("TEXT")
                  /\ IsPresent(t.components[j].text)}}
    \cup
    UNION {{[field |-> "buttons[" \o ToString(k - 1) \o "].url",
             text |-> Get(t.components[i].buttons[k].url)] :
               k \in {m \in 1..Len(t.components[i].buttons) :
                         t.components[i].buttons[m].type = "URL"}} :
            i \in {j \in 1..Len(t.components) : t.components[j].type = "BUTTONS"}}

OnField(calls, field) ==
    LET Here(d) == d.field = field IN SelectSeq(calls, Here)

(***************************************************************************)
(* C5: for each field pass 4 checks: when the placeholders of its text are *)
(* exactly {{1}}..{{k}}, no gaps, no duplicates, the pass raises nothing   *)
(* on the field; otherwise (the ascending list of the indices found is     *)
(* not 1..n) it raises exactly one error on the field, whose message lists *)
(* every index found, in ascending order ("... Found: {{1}}, {{3}}").      *)
(***************************************************************************)
C5_VariableUsage ==
    \A i \in 1..Len(reports) :
        \A f \in CheckedFields(reports[i].template) :
            LET raised == OnField(reports[i].passes[4], f.field)
            IN  IF ExactlyOneToK(f.text)
                THEN raised = <<>>
                ELSE /\ Len(SelectSeq(raised, IsError)) = 1
                     /\ SelectSeq(raised, IsError)[1].message =
                            "Variables must be sequential starting from {{1}}. Found: "
                                \o FoundFrom(f.text, 0, TRUE)

\* body text "{{1}}a{{3}}": the one error on body.text lists {{1}}, {{3}}
C5_Witness ==
    \E i \in 1..Len(reports) :
        /\ reports[i].template.components[1].type = "BODY"
        /\ reports[i].template.components[1].text = Var("1") \o <<"a">> \o Var("3")
        /\ Len(heap[reports[i].result.errors]) = 1
        /\ heap[reports[i].result.errors][1].field = "body.text"
        /\ heap[reports[i].result.errors][1].message =
               "Variables must be sequential starting from {{1}}. Found: {{1}}, {{3}}"

(***************************************************************************)
(* C6: a reused placeholder index is not fatal in pass 4: on a checked     *)
(* field whose text reuses an index the pass raises a warning and no       *)
(* error, so a template whose only irregularity is the reuse is valid.     *)
(***************************************************************************)
C6_DuplicatesNotFatal ==
    \A i \in 1..Len(reports) :
        \A f \in CheckedFields(reports[i].template) :
            ReusesAnIndex(f.text)
            => /\ SelectSeq(OnField(reports[i].passes[4], f.field), IsWarning) /= <<>>
               /\ SelectSeq(OnField(reports[i].passes[4], f.field), IsError) = <<>>

(***************************************************************************)
(* C7: for a document that is acceptable but for the text of its body or   *)
(* of its TEXT header, the text being non-empty and within its limit, the  *)
(* parse succeeds exactly when (a) the distinct indices of the {{n}}       *)
(* tokens of the text are 1..k (or there are none) and (b) the text holds  *)
(* no malformed placeholder.                                               *)
(***************************************************************************)
DistinctIndicesOneToK(text) ==
    Indices(text) = 1..Cardinality(Indices(text))

\* some "{{", then no "}" up to a "}}", with something other than digits between
HasMalformedPlaceholder(text) ==
    \E i, j \in 1..Len(text) :
        /\ i + 2 <= j /\ j + 1 <= Len(text)
        /\ text[i] = "{" /\ text[i + 1] = "{"
        /\ text[j] = "}" /\ text[j + 1] = "}"
        /\ \A m \in (i + 2)..(j - 1) : text[m] /= "}"
        /\ \/ j = i + 2
           \/ \E m \in (i + 2)..(j - 1) : text[m] \notin Digits

\* the generated texts the parsed document was built from
GeneratedTexts(input) ==
    {x \in Texts : input \in {Document(BodyTextDoc(x)), Document(HeaderTextDoc(x))}}

C7_TextAcceptance ==
    \A i \in 1..Len(parsed) :
        \A x \in GeneratedTexts(parsed[i].input) :
            (1 <= Len(x) /\ Len(x) <= HEADER_LIMIT)
            => (parsed[i].result.success
                    <=> (DistinctIndicesOneToK(x) /\ ~HasMalformedPlaceholder(x)))

(***************************************************************************)
(* C11: pass 6 raises one error with field buttons for each violated rule  *)
(* among more than one PHONE_NUMBER button, more than two URL buttons,     *)
(* more than one COPY_CODE button, and QUICK_REPLY buttons that do not     *)
(* occupy consecutive indices of the original order; it raises nothing for *)
(* a rule that holds and nothing without a BUTTONS component.              *)
(***************************************************************************)
\* the buttons of the BUTTONS component, <<>> when there is none
ButtonsOf(t) ==
    IF \E i \in 1..Len(t.components) : t.components[i].type = "BUTTONS"
    THEN t.components[CHOOSE i \in 1..Len(t.components) :
                          /\ t.components[i].type = "BUTTONS"
                          /\ \A j \in 1..(i - 1) : t.components[j].type /= "BUTTONS"].buttons
    ELSE <<>>

PositionsOf(bs, type) == {k \in 1..Len(bs) : bs[k].type = type}

\* some button that is not a quick reply lies between two quick replies
QuickRepliesSplit(bs) ==
    \E i, j, k \in 1..Len(bs) :
        /\ i < j /\ j < k
        /\ bs[i].type = "QUICK_REPLY" /\ bs[k].type = "QUICK_REPLY"
        /\ bs[j].type /= "QUICK_REPLY"

\* the messages of the rules the buttons violate
ViolatedButtonRules(bs) ==
    (IF Cardinality(PositionsOf(bs, "PHONE_NUMBER")) > 1
     THEN {"Maximum 1 phone number button allowed"} ELSE {})
    \cup (IF Cardinality(PositionsOf(bs, "URL")) > 2
          THEN {"Maximum 2 URL buttons allowed"} ELSE {})
    \cup (IF Cardinality(PositionsOf(bs, "COPY_CODE")) > 1
          THEN {"Maximum 1 copy code button allowed"} ELSE {})
    \cup (IF QuickRepliesSplit(bs)
          THEN {"Quick reply buttons must be grouped together"} ELSE {})

C11_ButtonCombinations ==
    \A i \in 1..Len(reports) :
        LET raised == reports[i].passes[6]
            rules == ViolatedButtonRules(ButtonsOf(reports[i].template))
        IN  /\ \A k \in 1..Len(raised) : IsError(raised[k]) /\ raised[k].field = "buttons"
            /\ {raised[k].message : k \in 1..Len(raised)} = rules
            /\ Len(raised) = Cardinality(rules)

\* two phone buttons between two quick replies: two rules violated, two errors
C11_Witness ==
    \E i \in 1..Len(reports) :
        /\ Len(ButtonsOf(reports[i].template)) = 4
        /\ PositionsOf(ButtonsOf(reports[i].template), "QUICK_REPLY") = {1, 4}
        /\ PositionsOf(ButtonsOf(reports[i].template), "PHONE_NUMBER") = {2, 3}
        /\ Len(reports[i].passes[6]) = 2
        /\ Len(heap[reports[i].result.errors]) = 2
        /\ reports[i].result.isValid = FALSE

(***************************************************************************)
(* C12: in pass 3, a HEADER with format TEXT and no text gives an error    *)
(* with field header.text, and a HEADER with another format and no         *)
(* example.header_url gives an error with field header.example.header_url; *)
(* the report then has isValid = false.                                    *)
(***************************************************************************)
\* the HEADER component as an optional value
HeaderOf(t) ==
    IF \E i \in 1..Len(t.components) : t.components[i].type = "HEADER"
    THEN Some(t.components[CHOOSE i \in 1..Len(t.components) :
                               /\ t.components[i].type = "HEADER"
                               /\ \A j \in 1..(i - 1) : t.components[j].type /= "HEADER"])
    ELSE Absent

TextHeaderWithoutText(t) ==
    /\ IsPresent(HeaderOf(t))
    /\ Get(HeaderOf(t)).format = Some("TEXT")
    /\ Get(HeaderOf(t)).text \in {Absent, Some(<<>>)}

OtherHeaderWithoutUrl(t) ==
    /\ IsPresent(HeaderOf(t))
    /\ IsPresent(Get(HeaderOf(t)).format)
    /\ Get(HeaderOf(t)).format /= Some("TEXT")
    /\ \/ Get(HeaderOf(t)).example = Absent
       \/ Get(Get(HeaderOf(t)).example).header_url = Absent

ErrorsOn(calls, field) ==
    LET Here(d) == IsError(d) /\ d.field = field IN SelectSeq(calls, Here)

C12_HeaderCrossCheck ==
    \A i \in 1..Len(reports) :
        /\ TextHeaderWithoutText(reports[i].template)
           => /\ Len(ErrorsOn(reports[i].passes[3], "header.text")) = 1
              /\ reports[i].result.isValid = FALSE
        /\ OtherHeaderWithoutUrl(reports[i].template)
           => /\ Len(ErrorsOn(reports[i].passes[3], "header.example.header_url")) = 1
              /\ reports[i].result.isValid = FALSE

\* a MARKETING template whose HEADER has format IMAGE and no example
C12_Witness ==
    \E i \in 1..Len(reports) :
        /\ reports[i].template.category = "MARKETING"
        /\ HeaderOf(reports[i].template) = Some(Header(Some("IMAGE"), Absent, Absent))
        /\ \E k \in 1..Len(heap[reports[i].result.errors]) :
               /\ heap[reports[i].result.errors][k].field = "header.example.header_url"
               /\ heap[reports[i].result.errors][k].message =
                      "IMAGE header format requires example URL"
        /\ reports[i].result.isValid = FALSE

(***************************************************************************)
(* C13: every template returned by a successful parse satisfies the HEADER *)
(* invariant: a header of format TEXT has its text, and a header of a      *)
(* media format has an example whose header_url holds at least one URL.    *)
(***************************************************************************)
MediaFormats == {"IMAGE", "VIDEO", "DOCUMENT"}

HeaderInvariant(t) ==
    IsPresent(HeaderOf(t))
    => /\ Get(HeaderOf(t)).format = Some("TEXT")
          => TruthyStr(Get(HeaderOf(t)).text)
       /\ (/\ IsPresent(Get(HeaderOf(t)).format)
           /\ Get(Get(HeaderOf(t)).format) \in MediaFormats)
          => /\ IsPresent(Get(HeaderOf(t)).example)
             /\ IsPresent(Get(Get(HeaderOf(t)).example).header_url)
             /\ Len(Get(Get(Get(HeaderOf(t)).example).header_url)) >= 1

C13_ParsedHeaderInvariant ==
    \A i \in 1..Len(parsed) :
        parsed[i].result.success => HeaderInvariant(Get(parsed[i].result.data))

(***************************************************************************)
(* C14: pass 7 raises nothing for a HEADER whose format is LOCATION,       *)
(* whatever its example is, an absent example URL included.                *)
(***************************************************************************)
C14_LocationUnconstrained ==
    \A i \in 1..Len(reports) :
        (/\ IsPresent(HeaderOf(reports[i].template))
         /\ Get(HeaderOf(reports[i].template)).format = Some("LOCATION"))
        => reports[i].passes[7] = <<>>

(***************************************************************************)
(* C15: pass 7 for a HEADER of format IMAGE, VIDEO or DOCUMENT: without a  *)
(* non-empty first example URL it raises one error on                      *)
(* header.example.header_url and nothing else; with one, it raises one     *)
(* error on that field exactly when the URL does not end, in any case,     *)
(* with .jpg, .jpeg or .png (IMAGE), .mp4 (VIDEO), .pdf (DOCUMENT).  The   *)
(* pass raises at most one diagnostic, and none for a TEXT header or       *)
(* without a HEADER.                                                       *)
(***************************************************************************)
\* the first example URL of the header, as an optional value; an empty URL counts
\* as none
FirstUrl(h) ==
    IF /\ IsPresent(h.example)
       /\ IsPresent(Get(h.example).header_url)
       /\ Len(Get(Get(h.example).header_url)) >= 1
       /\ Get(Get(h.example).header_url)[1] /= <<>>
    THEN Some(Get(Get(h.example).header_url)[1])
    ELSE Absent

\* the extensions of a format, each a sequence of the letters allowed at a position
Extensions(format) ==
    CASE format = "IMAGE" ->
            { <<{"."}, {"j", "J"}, {"p", "P"}, {"g", "G"}>>,
              <<{"."}, {"j", "J"}, {"p", "P"}, {"e", "E"}, {"g", "G"}>>,
              <<{"."}, {"p", "P"}, {"n", "N"}, {"g", "G"}>> }
      [] format = "VIDEO" -> { <<{"."}, {"m", "M"}, {"p", "P"}, {"4"}>> }
      [] format = "DOCUMENT" -> { <<{"."}, {"p", "P"}, {"d", "D"}, {"f", "F"}>> }

EndsWithExtension(url, format) ==
    \E ext \in Extensions(format) :
        /\ Len(url) >= Len(ext)
        /\ \A k \in 1..Len(ext) : url[Len(url) - Len(ext) + k] \in ext[k]

C15_MediaRequirements ==
    \A i \in 1..Len(reports) :
        LET raised == reports[i].passes[7]
            header == HeaderOf(reports[i].template)
        IN  /\ Len(raised) <= 1
            /\ \A k \in 1..Len(raised) :
                   IsError(raised[k]) /\ raised[k].field = "header.example.header_url"
            /\ (~IsPresent(header) \/ Get(header).format = Some("TEXT")) => raised = <<>>
            /\ (/\ IsPresent(header)
                /\ IsPresent(Get(header).format)
                /\ Get(Get(header).format) \in MediaFormats)
               => IF ~IsPresent(FirstUrl(Get(header))) THEN Len(raised) = 1
                  ELSE (Len(raised) = 1)
                           <=> ~EndsWithExtension(Get(FirstUrl(Get(header))),
                                                  Get(Get(header).format))

\* an IMAGE header whose first example URL ends with ".jpg?b": the extension error
C15_Witness ==
    \E i \in 1..Len(reports) :
        /\ IsPresent(HeaderOf(reports[i].template))
        /\ Get(HeaderOf(reports[i].template)).format = Some("IMAGE")
        /\ FirstUrl(Get(HeaderOf(reports[i].template)))
               = Some(<<"h", ":", "a", ".", "j", "p", "g", "?", "b">>)
        /\ Len(reports[i].passes[7]) = 1
        /\ reports[i].passes[7][1].message
               = "Image header URL must end with .jpg, .jpeg, or .png"
        /\ reports[i].result.isValid = FALSE

(***************************************************************************)
(* C16: in pass 3, for the button at index i of the BUTTONS component: an  *)
(* OTP button of otp_type ONE_TAP without package_name gives an error with *)
(* field buttons[i].package_name, an OTP button of otp_type ZERO_TAP whose  *)
(* zero_tap_terms_accepted is not true gives an error with field           *)
(* buttons[i].zero_tap_terms_accepted, i the index in the original order;  *)
(* other buttons give no such error.                                       *)
(***************************************************************************)
\* the fields on which the buttons call for an OTP error
OTPFields(bs) ==
    {"buttons[" \o ToString(k - 1) \o "].package_name" :
        k \in {m \in 1..Len(bs) :
                  /\ bs[m].type = "OTP"
                  /\ bs[m].otp_type = Some("ONE_TAP")
                  /\ bs[m].package_name \in {Absent, Some(<<>>)}}}
    \cup
    {"buttons[" \o ToString(k - 1) \o "].zero_tap_terms_accepted" :
        k \in {m \in 1..Len(bs) :
                  /\ bs[m].type = "OTP"
                  /\ bs[m].otp_type = Some("ZERO_TAP")
                  /\ bs[m].zero_tap_terms_accepted /= Some(TRUE)}}

\* the diagnostics of the pass on fields of buttons
OnButtonFields(calls, bs) ==
    LET Here(d) ==
            \E k \in 1..Len(bs) :
                d.field \in {"buttons[" \o ToString(k - 1) \o "].package_name",
                             "buttons[" \o ToString(k - 1) \o "].zero_tap_terms_accepted",
                             "buttons[" \o ToString(k) \o "].package_name",
                             "buttons[" \o ToString(k) \o "].zero_tap_terms_accepted"}
    IN  SelectSeq(calls, Here)

C16_OTPConditionalFields ==
    \A i \in 1..Len(reports) :
        LET bs == ButtonsOf(reports[i].template)
            raised == OnButtonFields(reports[i].passes[3], bs)
        IN  /\ \A k \in 1..Len(raised) : IsError(raised[k])
            /\ {raised[k].field : k \in 1..Len(raised)} = OTPFields(bs)
            /\ Len(raised) = Cardinality(OTPFields(bs))

\* a quick reply, then ONE_TAP without package_name, then ZERO_TAP not accepted
C16_Witness ==
    \E i \in 1..Len(reports) :
        /\ ButtonsOf(reports[i].template) =
               <<Button("QUICK_REPLY", Some(Chars_ok)),
                 OTPButton("ONE_TAP", Absent, Absent),
                 OTPButton("ZERO_TAP", Absent, Some(FALSE))>>
        /\ Len(heap[reports[i].result.errors]) = 2
        /\ heap[reports[i].result.errors][1].field = "buttons[1].package_name"
        /\ heap[reports[i].result.errors][2].field = "buttons[2].zero_tap_terms_accepted"

(***************************************************************************)
(* C17: pass 5, for each checked text with its limit L (the header text    *)
(* when the format is TEXT: 60, the body text: 1024, the footer text: 60,  *)
(* each button text: 25): an error on the field exactly when length > L, a *)
(* proximity warning on the field exactly when 10 * length > 9 * L, within *)
(* the limit or not, and nothing else.                                     *)
(***************************************************************************)
\* the texts pass 5 checks: field, length, limit
LimitedTexts(t) ==
    {[field |-> "body.text", length |-> Len(t.components[i].text), limit |-> 1024] :
        i \in {j \in 1..Len(t.components) : t.components[j].type = "BODY"}}
    \cup
    {[field |-> "footer.text", length |-> Len(t.components[i].text), limit |-> 60] :
        i \in {j \in 1..Len(t.components) : t.components[j].type = "FOOTER"}}
    \cup
    {[field |-> "header.text", length |-> Len(Get(t.components[i].text)), limit |-> 60] :
        i \in {j \in 1..Len(t.components) :
                  /\ t.components[j].type = "HEADER"
                  /\ t.components[j].format = Some("TEXT")
                  /\ IsPresent(t.components[j].text)}}
    \cup
    {[field |-> "buttons[" \o ToString(k - 1) \o "].text",
      length |-> Len(Get(ButtonsOf(t)[k].text)), limit |-> 25] :
        k \in {m \in 1..Len(ButtonsOf(t)) : IsPresent(ButtonsOf(t)[m].text)}}

C17_CharacterLimits ==
    \A i \in 1..Len(reports) :
        LET raised == reports[i].passes[5]
            texts == LimitedTexts(reports[i].template)
        IN  /\ \A k \in 1..Len(raised) : \E x \in texts : x.field = raised[k].field
            /\ \A x \in texts :
                   /\ Len(SelectSeq(OnField(raised, x.field), IsError))
                          = (IF x.length > x.limit THEN 1 ELSE 0)
                   /\ Len(SelectSeq(OnField(raised, x.field), IsWarning))
                          = (IF 10 * x.length > 9 * x.limit THEN 1 ELSE 0)
                   /\ SelectSeq(OnField(raised, x.field), IsInfo) = <<>>

\* a body of 922 characters, within the limit: the proximity warning and no error
C17_Witness ==
    \E i \in 1..Len(reports) :
        /\ Len(reports[i].template.components) = 1
        /\ Len(reports[i].template.components[1].text) = 922
        /\ Len(reports[i].passes[5]) = 1
        /\ reports[i].passes[5][1].field = "body.text"
        /\ reports[i].passes[5][1].severity = "warning"
        /\ reports[i].passes[5][1].message
               = "Text is close to 1024 character limit (current: 922)"
        /\ reports[i].result.isValid = TRUE

(***************************************************************************)
(* C18: a document whose FOOTER text contains a {{n}} placeholder is not   *)
(* accepted: the parse fails.                                              *)
(***************************************************************************)
\* the texts of the FOOTER components of a document
FooterTexts(doc) ==
    IF IsPresent(doc.components)
    THEN {Get(doc.components)[i].text :
             i \in {j \in 1..Len(Get(doc.components)) :
                       Get(doc.components)[j].type = "FOOTER"}}
    ELSE {}

C18_FooterWithoutVariables ==
    \A i \in 1..Len(parsed) :
        (/\ parsed[i].input.kind = "object"
         /\ \E x \in FooterTexts(parsed[i].input.value) : PlaceholderCount(x) >= 1)
        => ~parsed[i].result.success

(***************************************************************************)
(* C19: every template returned by a successful parse has exactly one BODY *)
(* component and at most one each of HEADER, FOOTER and BUTTONS, in        *)
(* whatever order the components were given; a document with no or two     *)
(* BODY components, or two of another type, is a structural failure.       *)
(***************************************************************************)
NumberOf(components, type) ==
    Cardinality({k \in 1..Len(components) : components[k].type = type})

ComponentCountsOk(components) ==
    /\ NumberOf(components, "BODY") = 1
    /\ NumberOf(components, "HEADER") <= 1
    /\ NumberOf(components, "FOOTER") <= 1
    /\ NumberOf(components, "BUTTONS") <= 1

\* one of the acceptable components of the generated documents
AcceptableComponent(c) ==
    CASE c.type = "HEADER" -> c = Header(Some("TEXT"), Some(Chars_hi), Absent)
      [] c.type = "BODY" -> c = Body(Chars_hi, Absent)
      [] c.type = "FOOTER" -> c = Footer(Chars_ok)
      [] c.type = "BUTTONS" -> c = Buttons(<<Button("QUICK_REPLY", Some(Chars_ok))>>)
      [] OTHER -> FALSE

C19_ComponentCounts ==
    \A i \in 1..Len(parsed) :
        /\ parsed[i].result.success
           => ComponentCountsOk(Get(parsed[i].result.data).components)
        /\ (/\ parsed[i].input.kind = "object"
            /\ IsPresent(parsed[i].input.value.components)
            /\ ~ComponentCountsOk(Get(parsed[i].input.value.components)))
           => ~parsed[i].result.success
        /\ (/\ parsed[i].input.kind = "object"
            /\ IsPresent(parsed[i].input.value.components)
            /\ \A k \in 1..Len(Get(parsed[i].input.value.components)) :
                   AcceptableComponent(Get(parsed[i].input.value.components)[k])
            /\ parsed[i].input.value = Doc(Get(parsed[i].input.value.components))
            /\ ComponentCountsOk(Get(parsed[i].input.value.components)))
           => /\ parsed[i].result.success
              /\ Get(parsed[i].result.data).components
                     = Get(parsed[i].input.value.components)

\* BUTTONS, FOOTER, BODY, HEADER in this order: accepted as given
C19_Witness ==
    \E i \in 1..Len(parsed) :
        /\ parsed[i].result.success
        /\ Len(Get(parsed[i].result.data).components) = 4
        /\ Get(parsed[i].result.data).components[1].type = "BUTTONS"
        /\ Get(parsed[i].result.data).components[2].type = "FOOTER"
        /\ Get(parsed[i].result.data).components[3].type = "BODY"
        /\ Get(parsed[i].result.data).components[4].type = "HEADER"


(***************************************************************************)
(* C20: the advisory rules of pass 2 never produce an error.  Pass 2       *)
(* raises exactly these warnings and infos: for AUTHENTICATION, one        *)
(* warning on buttons when the BUTTONS component has no OTP button, and    *)
(* one info on body.add_security_recommendation when the BODY does not set *)
(* the flag; for UTILITY with subCategory ORDER_STATUS, one warning on     *)
(* buttons when there is a BUTTONS component; for MARKETING, one info on   *)
(* header when there is no HEADER and one info on buttons when there is no *)
(* BUTTONS.  Every error of pass 2 is the one error on                     *)
(* messageSendTtlSeconds, so a report whose passes raise no error is       *)
(* valid whatever advisories pass 2 raised.  (The component a rule looks   *)
(* at is the first of its type.)                                           *)
(***************************************************************************)
HasComponent(t, type) ==
    \E k \in 1..Len(t.components) : t.components[k].type = type

BodySetsSecurityFlag(t) ==
    \E k \in 1..Len(t.components) :
        /\ t.components[k].type = "BODY"
        /\ \A j \in 1..(k - 1) : t.components[j].type /= "BODY"
        /\ t.components[k].add_security_recommendation = Some(TRUE)

\* the (field, severity) pairs of the advisories the rules call for, in order
Advisories(t) ==
    CASE t.category = "AUTHENTICATION" ->
            (IF HasComponent(t, "BUTTONS") /\ PositionsOf(ButtonsOf(t), "OTP") = {}
             THEN <<<<"buttons", "warning">>>> ELSE <<>>)
            \o (IF HasComponent(t, "BODY") /\ ~BodySetsSecurityFlag(t)
                THEN <<<<"body.add_security_recommendation", "info">>>> ELSE <<>>)
      [] t.category = "UTILITY" ->
            (IF t.subCategory = Some("ORDER_STATUS") /\ HasComponent(t, "BUTTONS")
             THEN <<<<"buttons", "warning">>>> ELSE <<>>)
      [] t.category = "MARKETING" ->
            (IF ~HasComponent(t, "HEADER") THEN <<<<"header", "info">>>> ELSE <<>>)
            \o (IF ~HasComponent(t, "BUTTONS") THEN <<<<"buttons", "info">>>> ELSE <<>>)
      [] OTHER -> <<>>

NotError(d) == ~IsError(d)

C20_AdvisoriesNeverErrors ==
    \A i \in 1..Len(reports) :
        LET raised == SelectSeq(reports[i].passes[2], NotError)
            errors == SelectSeq(reports[i].passes[2], IsError)
        IN  /\ [k \in 1..Len(raised) |-> <<raised[k].field, raised[k].severity>>]
                   = Advisories(reports[i].template)
            /\ Len(errors) <= 1
            /\ \A k \in 1..Len(errors) : errors[k].field = "messageSendTtlSeconds"
            /\ (errors /= <<>>) => OutsideWindow(reports[i].template)
            /\ reports[i].result.isValid
                   = (\A j \in 1..8 : SelectSeq(reports[i].passes[j], IsError) = <<>>)

\* a valid report for an AUTHENTICATION template whose pass 2 raised the
\* warning on buttons and the info on the body
C20_Witness ==
    \E i \in 1..Len(reports) :
        /\ reports[i].template.category = "AUTHENTICATION"
        /\ Len(SelectSeq(reports[i].passes[2], IsWarning)) = 1
        /\ Len(SelectSeq(reports[i].passes[2], IsInfo)) = 1
        /\ SelectSeq(reports[i].passes[2], IsError) = <<>>
        /\ reports[i].result.isValid

(***************************************************************************)
(* C21: the component-order check of pass 1.  Component i (counted from 0) *)
(* is out of order when some component before it has a higher rank in      *)
(* HEADER, BODY, FOOTER, BUTTONS.  Pass 1 raises one warning on            *)
(* components[i] for each component out of order, in order of i, so it     *)
(* warns exactly when the sequence deviates from the canonical order; its  *)
(* only error is the one on components for a missing BODY.  For two        *)
(* templates with at most one component of each type that differ in the    *)
(* order of their components only, isValid and the calls of passes 2 and 3 *)
(* are the same.                                                           *)
(***************************************************************************)
Rank(type) ==
    CASE type = "HEADER" -> 0
      [] type = "BODY" -> 1
      [] type = "FOOTER" -> 2
      [] type = "BUTTONS" -> 3
      [] OTHER -> -1

OutOfOrder(cs) ==
    {k \in 1..Len(cs) : \E j \in 1..(k - 1) : Rank(cs[j].type) > Rank(cs[k].type)}

OnePerType(cs) ==
    \A j, k \in 1..Len(cs) : cs[j].type = cs[k].type => j = k

SameButOrder(t, u) ==
    /\ [t EXCEPT !.components = <<>>] = [u EXCEPT !.components = <<>>]
    /\ Len(t.components) = Len(u.components)
    /\ OnePerType(t.components) /\ OnePerType(u.components)
    /\ {t.components[k] : k \in 1..Len(t.components)}
           = {u.components[k] : k \in 1..Len(u.components)}

C21_ComponentOrder ==
    /\ \A i \in 1..Len(reports) :
           LET cs == reports[i].template.components
               warned == SelectSeq(reports[i].passes[1], IsWarning)
               errors == SelectSeq(reports[i].passes[1], IsError)
           IN  /\ Len(warned) = Cardinality(OutOfOrder(cs))
               /\ \A n \in 1..Len(warned) :
                      \E k \in OutOfOrder(cs) :
                          /\ warned[n].field = "components[" \o ToString(k - 1) \o "]"
                          /\ Cardinality({j \in OutOfOrder(cs) : j < k}) = n - 1
               /\ Len(warned) + Len(errors) = Len(reports[i].passes[1])
               /\ \A n \in 1..Len(errors) : errors[n].field = "components"
               /\ (errors /= <<>>) <=> (\A k \in 1..Len(cs) : cs[k].type /= "BODY")
    /\ \A i, j \in 1..Len(reports) :
           SameButOrder(reports[i].template, reports[j].template)
           => /\ reports[i].result.isValid = reports[j].result.isValid
              /\ reports[i].passes[2] = reports[j].passes[2]
              /\ reports[i].passes[3] = reports[j].passes[3]

\* BODY, FOOTER, BUTTONS validated in canonical order without an order
\* warning, then as BUTTONS, FOOTER, BODY with two
C21_Witness ==
    /\ Len(reports) = 2
    /\ reports[1].template.components /= reports[2].template.components
    /\ SameButOrder(reports[1].template, reports[2].template)
    /\ Len(reports[1].template.components) = 3
    /\ SelectSeq(reports[1].passes[1], IsWarning) = <<>>
    /\ Len(SelectSeq(reports[2].passes[1], IsWarning)) = 2
    /\ reports[1].result.isValid /\ reports[2].result.isValid

(***************************************************************************)
(* C22: the example templates are valid.  For each category, the template  *)
(* generateExampleTemplate returns is accepted by parseJSON unchanged when *)
(* written as JSON, and validate and validateTemplate report it valid with *)
(* no error; the report of the AUTHENTICATION example (TTL 600, an OTP     *)
(* COPY_CODE button) holds at most one info, which can only be the one on  *)
(* body.add_security_recommendation and only when the body does not set    *)
(* the flag.                                                               *)
(***************************************************************************)
Examples == {generateExampleTemplate(category) : category \in Categories}

IsSecurityInfo(d) == d.field = "body.add_security_recommendation"

C22_ExamplesValid ==
    /\ \A i \in 1..Len(parsed) :
           \A t \in Examples :
               parsed[i].input = AsDocument(t)
               => /\ parsed[i].result.success
                  /\ parsed[i].result.data = Some(t)
    /\ \A i \in 1..Len(reports) :
           reports[i].template \in Examples
           => /\ reports[i].result.isValid
              /\ heap[reports[i].result.errors] = <<>>
              /\ reports[i].template.category = "AUTHENTICATION"
                 => /\ Len(heap[reports[i].result.info]) <= 1
                    /\ \A k \in 1..Len(heap[reports[i].result.info]) :
                           /\ IsSecurityInfo(heap[reports[i].result.info][k])
                           /\ ~BodySetsSecurityFlag(reports[i].template)

\* the AUTHENTICATION example has been parsed and accepted, and validated
C22_Witness ==
    /\ \E i \in 1..Len(parsed) :
           /\ parsed[i].result.success
           /\ Get(parsed[i].result.data).category = "AUTHENTICATION"
           /\ Get(parsed[i].result.data).messageSendTtlSeconds = Some(600)
    /\ \E i \in 1..Len(reports) :
           /\ reports[i].template = generateExampleTemplate("AUTHENTICATION")
           /\ reports[i].result.isValid
           /\ ButtonsOf(reports[i].template)[1].otp_type = Some("COPY_CODE")

(***************************************************************************)
(* C23: the verdict shown is the engine's.  Once handleValidate has run,   *)
(* the status is success and a template is handed to the preview only for  *)
(* a text that parseJSON accepts and whose report by validate is valid.    *)
(***************************************************************************)
EngineAccepts(input) ==
    /\ parseJSON(input).success
    /\ SelectSeq(runPasses(Get(parseJSON(input).data)), IsError) = <<>>

C23_VerdictIsEngines ==
    (/\ ui.last = "validate"
     /\ \/ ui.validationStatus = "success"
        \/ IsPresent(ui.parsedTemplate))
    => EngineAccepts(ui.jsonInput)

(***************************************************************************)
(* C24: tab switching follows the validation result.  Once handleValidate  *)
(* has run on a text that is not blank, the status is success or error,    *)
(* and: (a) the JSON parses and no error is found: status success,         *)
(* parsedTemplate the parsed value, active tab preview; (b) the JSON       *)
(* parses and an error is found: status error, no parsedTemplate, a        *)
(* results list that is not empty, active tab results; (c) the JSON does   *)
(* not parse: status error, no parsedTemplate, an error message, active    *)
(* tab input.                                                              *)
(***************************************************************************)
JsonParses(input) == input.kind /= "SyntaxError"

OutcomeValid(u) ==
    /\ u.validationStatus = "success"
    /\ u.parsedTemplate = Some(u.jsonInput.value)
    /\ u.activeTab = "preview"

OutcomeErrors(u) ==
    /\ u.validationStatus = "error"
    /\ u.parsedTemplate = Absent
    /\ u.validationResults /= <<>>
    /\ u.activeTab = "results"

OutcomeMalformed(u) ==
    /\ u.validationStatus = "error"
    /\ u.parsedTemplate = Absent
    /\ u.errorMessage /= ""
    /\ u.activeTab = "input"

C24_TabFollowsResult ==
    (ui.last = "validate" /\ ~isBlank(ui.jsonInput.text))
    => /\ ui.validationStatus \in {"success", "error"}
       /\ ~JsonParses(ui.jsonInput) => OutcomeMalformed(ui)
       /\ JsonParses(ui.jsonInput)
          => \/ /\ OutcomeValid(ui)
                /\ ui.jsonInput.kind = "object" => uiErrors(ui.jsonInput.value) = <<>>
             \/ /\ OutcomeErrors(ui)
                /\ ui.jsonInput.kind = "object" => uiErrors(ui.jsonInput.value) /= <<>>

(***************************************************************************)
(* C25: the feedback is that of the current input.  Whenever the status is *)
(* success or error, or a template is held for the preview, the status,    *)
(* the results and the template are those handleValidate gives for the     *)
(* text now in the input, whatever events came before.                     *)
(***************************************************************************)
C25_VerdictOfCurrentInput ==
    (\/ ui.validationStatus \in {"success", "error"}
     \/ IsPresent(ui.parsedTemplate))
    => /\ ui.validationStatus = handleValidate(ui).validationStatus
       /\ ui.validationResults = handleValidate(ui).validationResults
       /\ ui.parsedTemplate = handleValidate(ui).parsedTemplate

(***************************************************************************)
(* C30: after any sequence of events of the component (editing the input,  *)
(* an uploaded file read, an example loaded, Validate clicked while        *)
(* enabled, an enabled tab chosen), a parsed template is held only while   *)
(* the status is success, and the preview tab is active only while a       *)
(* parsed template is held; right after an example is loaded the status is *)
(* idle, there is no error message, no result and no parsed template, and  *)
(* the active tab is input.                                                *)
(***************************************************************************)
C30_UIStateInvariant ==
    /\ IsPresent(ui.parsedTemplate) => ui.validationStatus = "success"
    /\ ui.activeTab = "preview" => IsPresent(ui.parsedTemplate)
    /\ ui.last = "loadExample"
       => /\ ui.validationStatus = "idle"
          /\ ui.errorMessage = ""
          /\ ui.validationResults = <<>>
          /\ ui.parsedTemplate = Absent
          /\ ui.activeTab = "input"

\* the preview of an accepted template is shown, with warnings in the results,
\* and the input has been emptied since
C30_Witness ==
    /\ ui.last = "edit"
    /\ isBlank(ui.jsonInput.text)
    /\ ui.activeTab = "preview"
    /\ IsPresent(ui.parsedTemplate)
    /\ ui.validationStatus = "success"
    /\ ui.validationResults /= <<>>

(***************************************************************************)
(* C26: getTemplateStats on a validated template.  totalCharacters is the  *)
(* number of characters of the header text (when the format is TEXT), the  *)
(* body text, the footer text and every button text together; the size     *)
(* class is Small exactly below 100, Medium from 100 below 500, Large from *)
(* 500 below 1000 and Very Large from 1000; buttonCount is the number of   *)
(* buttons; variableCount is the number of {{n}} in the TEXT header, the   *)
(* body and the button urls, which is the number of entries                *)
(* extractVariables returns; the template is as it was.                    *)
(***************************************************************************)
\* the texts a component contributes to the total
CountedTexts(c) ==
    CASE c.type = "HEADER" ->
             IF c.format = Some("TEXT") /\ IsPresent(c.text) THEN <<Get(c.text)>> ELSE <<>>
      [] c.type \in {"BODY", "FOOTER"} -> <<c.text>>
      [] c.type = "BUTTONS" ->
             forEach([k \in 1..Len(c.buttons) |->
                        IF IsPresent(c.buttons[k].text) THEN <<Get(c.buttons[k].text)>>
                        ELSE <<>>])

AllCountedText(t) ==
    forEach(forEach([k \in 1..Len(t.components) |-> CountedTexts(t.components[k])]))

SizeClass(total) ==
    CHOOSE class \in {"Small", "Medium", "Large", "Very Large"} :
        /\ class = "Small" <=> total < 100
        /\ class = "Medium" <=> (100 <= total /\ total < 500)
        /\ class = "Large" <=> (500 <= total /\ total < 1000)
        /\ class = "Very Large" <=> total >= 1000


\* the texts whose placeholders are counted
VariableTexts(c) ==
    CASE c.type = "HEADER" ->
             IF c.format = Some("TEXT") /\ IsPresent(c.text) THEN <<Get(c.text)>> ELSE <<>>
      [] c.type = "BODY" -> <<c.text>>
      [] c.type = "BUTTONS" ->
             forEach([k \in 1..Len(c.buttons) |->
                        IF IsPresent(c.buttons[k].url) THEN <<Get(c.buttons[k].url)>>
                        ELSE <<>>])
      [] OTHER -> <<>>

\* the texts one after the other, a space after each
AllVariableText(t) ==
    forEach([n \in 1..Len(forEach([k \in 1..Len(t.components) |->
                                      VariableTexts(t.components[k])])) |->
                forEach([k \in 1..Len(t.components) |->
                            VariableTexts(t.components[k])])[n] \o <<" ">>])

C26_TemplateStats ==
    /\ \A i \in 1..Len(stats) : stats[i].template = arg
    /\ \A i \in 1..Len(stats) :
           stats[i].call = "getTemplateStats"
           => /\ stats[i].result.totalCharacters = Len(AllCountedText(arg))
              /\ stats[i].result.estimatedSize = SizeClass(Len(AllCountedText(arg)))
              /\ stats[i].result.buttonCount = Len(ButtonsOf(arg))
              /\ stats[i].result.variableCount = PlaceholderCount(AllVariableText(arg))
              /\ \A j \in 1..Len(stats) :
                     stats[j].call = "extractVariables"
                     => stats[i].result.variableCount = Len(stats[j].result)

\* a template of exactly 1000 characters with a TEXT header, a footer and
\* three buttons: Very Large, and extractVariables has returned its four entries
C26_Witness ==
    \E i, j \in 1..Len(stats) :
        /\ stats[i].call = "getTemplateStats"
        /\ stats[i].result.totalCharacters = 1000
        /\ stats[i].result.estimatedSize = "Very Large"
        /\ stats[i].result.buttonCount = 3
        /\ stats[i].result.variableCount = 4
        /\ stats[j].call = "extractVariables"
        /\ Len(stats[j].result) = 4
        /\ stats[j].result[1].position = 0

(***************************************************************************)
(* C27: the structural layer and the rule engine agree on the button       *)
(* rules: for every validated template with a BUTTONS component of at      *)
(* least one button, the two refinements of the schema on its buttons      *)
(* (quick replies grouped, and at most 1 PHONE_NUMBER, 2 URL and 1         *)
(* COPY_CODE button) both accept the sequence exactly when pass 6 raised   *)
(* no error for it.                                                        *)
(***************************************************************************)
RefinementsAccept(bs) == quickRepliesGrouped(bs) /\ withinButtonLimits(bs)

C27_ButtonRulesAgree ==
    \A i \in 1..Len(reports) :
        Len(ButtonsOf(reports[i].template)) >= 1
        => (RefinementsAccept(ButtonsOf(reports[i].template))
            <=> SelectSeq(reports[i].passes[6], IsError) = <<>>)

\* a quick reply at index 0, the only one, followed by a phone button and two URL
\* buttons: the last quick-reply index falls back to -1, the refinements accept
\* the sequence and pass 6 raises nothing
C27_Witness ==
    \E i \in 1..Len(reports) :
        /\ PositionsOf(ButtonsOf(reports[i].template), "QUICK_REPLY") = {1}
        /\ PositionsOf(ButtonsOf(reports[i].template), "PHONE_NUMBER") = {2}
        /\ PositionsOf(ButtonsOf(reports[i].template), "URL") = {3, 4}
        /\ RefinementsAccept(ButtonsOf(reports[i].template))
        /\ reports[i].passes[6] = <<>>

(***************************************************************************)
(* C29: the position of a syntax failure.  For a raw text whose syntax     *)
(* error names the offset p, 0 <= p <= length, the reported line is 1 plus *)
(* the number of newline characters among the first p characters, and the  *)
(* reported column is p, minus the number of characters up to and          *)
(* including the last newline among them, plus 1; both are at least 1.  A  *)
(* syntax error that names no offset is reported at line 1, column 1.      *)
(***************************************************************************)
\* the offsets the message of the input was built from: one offset, or none
NamedOffsets(input) ==
    {p \in 0..Len(input.text) :
        input.message = Chars_unexpected \o Chars_at_position \o <<DigitChars[p + 1]>>}

NewlinesBefore(text, p) == {k \in 1..p : text[k] = "\n"}

\* the number of characters up to and including the last newline before p
ThroughLastNewline(text, p) ==
    IF NewlinesBefore(text, p) = {} THEN 0
    ELSE CHOOSE k \in NewlinesBefore(text, p) : \A m \in NewlinesBefore(text, p) : m <= k

C29_SyntaxPosition ==
    \A i \in 1..Len(parsed) :
        parsed[i].input.kind = "SyntaxError"
        => /\ parsed[i].result.success = FALSE
           /\ IsPresent(parsed[i].result.lineNumber)
           /\ IsPresent(parsed[i].result.column)
           /\ Get(parsed[i].result.lineNumber) >= 1
           /\ Get(parsed[i].result.column) >= 1
           /\ \A p \in NamedOffsets(parsed[i].input) :
                  /\ Get(parsed[i].result.lineNumber)
                        = 1 + Cardinality(NewlinesBefore(parsed[i].input.text, p))
                  /\ Get(parsed[i].result.column)
                        = p - ThroughLastNewline(parsed[i].input.text, p) + 1
           /\ NamedOffsets(parsed[i].input) = {}
                  => /\ Get(parsed[i].result.lineNumber) = 1
                     /\ Get(parsed[i].result.column) = 1

\* the text of three lines {, "a", } failed at offset 4, the second character of
\* its second line: line 2, column 3
C29_Witness ==
    \E i \in 1..Len(parsed) :
        /\ parsed[i].input.kind = "SyntaxError"
        /\ parsed[i].input.text = <<"{", "\n", "\"", "a", "\"", "\n", "}">>
        /\ NamedOffsets(parsed[i].input) = {4}
        /\ parsed[i].result.lineNumber = Some(2)
        /\ parsed[i].result.column = Some(3)

(***************************************************************************)
(* C28: in the pipeline parse then validate, the checks of the rule engine *)
(* that repeat a structural constraint are silent.  For every template     *)
(* returned by a successful parseJSON, validate raises no error in pass 1, *)
(* no error on header.text or header.example.header_url in pass 3, no      *)
(* diagnostic on body.text or header.text in pass 4, and no error in       *)
(* passes 5, 6 and 8.  Every error it raises is the category TTL error of  *)
(* pass 2, an OTP conditional-field error of pass 3, a sequencing error on *)
(* the url of a URL button in pass 4, or an error of pass 7.               *)
(***************************************************************************)
ParseAccepted(t) ==
    \E j \in 1..Len(parsed) :
        /\ parsed[j].result.success
        /\ Get(parsed[j].result.data) = t

ErrorsOf(calls) == SelectSeq(calls, IsError)

FieldsOf(calls) == {calls[k].field : k \in 1..Len(calls)}

OTPFieldNames(t) ==
    UNION {{"buttons[" \o ToString(k - 1) \o "].package_name",
            "buttons[" \o ToString(k - 1) \o "].zero_tap_terms_accepted"} :
           k \in {m \in 1..Len(ButtonsOf(t)) : ButtonsOf(t)[m].type = "OTP"}}

URLFieldNames(t) ==
    {"buttons[" \o ToString(k - 1) \o "].url" :
        k \in {m \in 1..Len(ButtonsOf(t)) : ButtonsOf(t)[m].type = "URL"}}

C28_DuplicateChecksSilent ==
    \A i \in 1..Len(reports) :
        ParseAccepted(reports[i].template)
        => /\ ErrorsOf(reports[i].passes[1]) = <<>>
           /\ FieldsOf(ErrorsOf(reports[i].passes[2])) \subseteq {"messageSendTtlSeconds"}
           /\ FieldsOf(ErrorsOf(reports[i].passes[3])) \subseteq OTPFieldNames(reports[i].template)
           /\ FieldsOf(reports[i].passes[4]) \cap {"body.text", "header.text"} = {}
           /\ FieldsOf(ErrorsOf(reports[i].passes[4])) \subseteq URLFieldNames(reports[i].template)
           /\ ErrorsOf(reports[i].passes[5]) = <<>>
           /\ ErrorsOf(reports[i].passes[6]) = <<>>
           /\ ErrorsOf(reports[i].passes[8]) = <<>>

\* a parsed template with a COPY_CODE button after a quick reply of 25 characters:
\* pass 5 has warned about the quick reply and raised no error, and the report is
\* valid
C28_Witness ==
    \E i \in 1..Len(reports) :
        /\ ParseAccepted(reports[i].template)
        /\ PositionsOf(ButtonsOf(reports[i].template), "QUICK_REPLY") = {1}
        /\ PositionsOf(ButtonsOf(reports[i].template), "COPY_CODE") = {2}
        /\ Len(reports[i].passes[5]) = 1
        /\ IsWarning(reports[i].passes[5][1])
        /\ reports[i].result.isValid
====
